---- MODULE Spec2Model ----
(***************************************************************************)
(* A model of the relatable storage engine (crates db, schema, parser).   *)
(* The file is modelled byte for byte: a header in block 0, a catalog     *)
(* chain rooted at schema_block_offset and one data chain per table.      *)
(* Every operator below is the translation of one function of the source; *)
(* a "machine" record M threads the state a call sequence works on:       *)
(*   file    the bytes of the backing disk                                 *)
(*   meta    the in-memory DatabaseMeta                                    *)
(*   st      "ok", "err" (an Err was returned), "panic" (the thread        *)
(*           panicked) or "hang" (the call loops forever)                  *)
(*   w       backing writes that still succeed before one fails (-1: all) *)
(*   blocks, cur   the BlockDisk the call works through                    *)
(*   ret     the value returned by the last call                           *)
(*   out     what execute_query handed to its callback so far              *)
(*   rows, tabs   history: the add_row and create_table calls that         *)
(*           returned Ok, in call order                                    *)
(*   allocs  history: the offsets of the blocks allocate_block returned   *)
(***************************************************************************)
EXTENDS Integers, Sequences, FiniteSets, TLC

\* file: the backing disk; meta: the DatabaseMeta of the open Database;
\* alive: the process holding the Database has neither panicked nor hung;
\* status, out: how the last execute_query ended and what it handed to its
\* callback; rowlog, tablog: history of the add_row / create_table calls that
\* returned Ok; prev: the disk and log lengths before the last call;
\* nstmts, faults: counters that bound the run; stream: a BlockDisk held open
\* over the Database as block allocator, with what was done through it;
\* probe: the last call of one of the codec functions, its input and result;
\* alloclog: history of the offsets of the blocks allocate_block returned
VARIABLES file, meta, alive, status, out, rowlog, tablog, lastq, prev, nstmts, faults,
          stream, probe, alloclog

vars == <<file, meta, alive, status, out, rowlog, tablog, lastq, prev, nstmts, faults,
          stream, probe, alloclog>>

\* ------------------------------------------------------------------ bounds
\* execute_query calls in one behaviour
MaxStmts == 3
\* the calls of a behaviour that may meet a failing backing write, how many
\* backing writes may succeed before the failing one, and how many fail
MaxFaultStmts == 2
MaxFaultPoint == 24
MaxFaults == 1
\* calls on an open BlockDisk in one behaviour
MaxStreamOps == 3

\* ------------------------------------------------------- program constants
BlockSizeExp == 6
MetaSizeOnDisk == 16
RowMetaSize == 2
Version == 1
NUMBER_TAG == 1
BLOB_TAG == 2
STR_TAG == 3

\* ----------------------------------------------------------- byte helpers
Max(a, b) == IF a >= b THEN a ELSE b
Min(a, b) == IF a <= b THEN a ELSE b

Zeros(n) == [i \in 1..n |-> 0]

\* byteorder::WriteBytesExt: the low w bytes of n, big-endian, two's complement
BE(n, w) ==
  [i \in 1..w |->
     LET e == w - i
     IN IF e >= 4 THEN (IF n < 0 THEN 255 ELSE 0)
        ELSE (n \div (256 ^ e)) % 256]

\* u64 values of Huge and more are not told apart: each of them is beyond
\* every offset and size of the files the model builds
Huge == 2 ^ 30

RECURSIVE UFromBE(_)
\* byteorder::ReadBytesExt::read_uN: big-endian unsigned value of the bytes
UFromBE(bytes) ==
  IF bytes = <<>> THEN 0
  ELSE LET hi == UFromBE(SubSeq(bytes, 1, Len(bytes) - 1))
       IN IF hi >= Huge \div 256 THEN Huge ELSE hi * 256 + bytes[Len(bytes)]

\* byteorder::ReadBytesExt::read_int: big-endian, sign-extended
IFromBE(bytes) ==
  IF bytes # <<>> /\ bytes[1] >= 128
  THEN -(UFromBE([i \in 1..Len(bytes) |-> 255 - bytes[i]]) + 1)
  ELSE UFromBE(bytes)

\* std::str::from_utf8 on the byte values the model produces: bytes below 128
\* are valid one-byte sequences, a lone byte of 128 or more is not
IsUtf8(bytes) == \A i \in 1..Len(bytes) : bytes[i] < 128

\* ------------------------------------------------------ the backing disk
\* io::Cursor<Vec<u8>> / File: a write past the end extends the file, the gap
\* reads as zeros
Overwrite(f, off, bytes) ==
  LET n == Len(bytes)
      newLen == Max(Len(f), off + n)
  IN [i \in 1..newLen |->
        IF i > off /\ i <= off + n THEN bytes[i - off]
        ELSE IF i <= Len(f) THEN f[i] ELSE 0]

\* one write call on the backing disk at position off; it fails (once) when
\* the budget of successful writes is used up
DiskWrite(M, off, bytes) ==
  IF M.st # "ok" THEN M
  ELSE IF M.w = 0 THEN [M EXCEPT !.st = "err", !.w = -1]
  ELSE [M EXCEPT !.file = Overwrite(M.file, off, bytes),
                 !.w = IF @ > 0 THEN @ - 1 ELSE @]

Fail(M, how) == IF M.st # "ok" THEN M ELSE [M EXCEPT !.st = how]
Ret(M, v) == [M EXCEPT !.ret = v]

\* the ? operator: the rest of the function, F, runs on the machine a call
\* left only when the call returned normally
Then(M, F(_)) == IF M.st # "ok" THEN M ELSE F(M)

\* a local binding: the value is computed once and named in F
Let(v, F(_)) == F(v)

\* ---------------------------------------------------------- DatabaseMeta
\* a header that counts the root block only
MetaNewRootOnly(version, block_size_exp) ==
  [version |-> version, block_size_exp |-> block_size_exp,
   num_allocated_blocks |-> 1, schema_block_offset |-> 2 ^ block_size_exp]

MetaNew(version, block_size_exp) ==
  [version |-> version, block_size_exp |-> block_size_exp,
   num_allocated_blocks |-> 2, schema_block_offset |-> 2 ^ block_size_exp]

BlockSizeOf(m) == 2 ^ m.block_size_exp

MetaPersist(M) ==
  LET M1 == DiskWrite(M, 0, BE(M.meta.version, 1))
      M2 == DiskWrite(M1, 1, BE(M.meta.block_size_exp, 1))
      M3 == DiskWrite(M2, 2, BE(M.meta.num_allocated_blocks, 8))
  IN DiskWrite(M3, 10, BE(M.meta.schema_block_offset, 8))

MetaFromDisk(f) ==
  [version |-> UFromBE(SubSeq(f, 1, 1)),
   block_size_exp |-> UFromBE(SubSeq(f, 2, 2)),
   num_allocated_blocks |-> UFromBE(SubSeq(f, 3, 10)),
   schema_block_offset |-> UFromBE(SubSeq(f, 11, 18))]

\* ------------------------------------------------------------------ Block
\* Option<u64> is <<>> (None) or <<x>> (Some(x))
BlockNew(offset, blocksize) ==
  [offset |-> offset, next |-> <<>>, size |-> 0,
   data |-> Zeros(blocksize - MetaSizeOnDisk)]

\* a header written with the size before the next link
BlockPersistSizeFirst(M, b) ==
  LET M1 == DiskWrite(M, b.offset, BE(b.size, 8))
      M2 == DiskWrite(M1, b.offset + 8, BE(IF b.next = <<>> THEN 0 ELSE b.next[1], 8))
  IN DiskWrite(M2, b.offset + MetaSizeOnDisk, b.data)

BlockPersist(M, b) ==
  LET M1 == DiskWrite(M, b.offset, BE(IF b.next = <<>> THEN 0 ELSE b.next[1], 8))
      M2 == DiskWrite(M1, b.offset + 8, BE(b.size, 8))
  IN DiskWrite(M2, b.offset + MetaSizeOnDisk, b.data)

BlockFromDisk(M, offset, blocksize) ==
  IF M.st # "ok" THEN M
  ELSE IF offset + blocksize > Len(M.file) THEN Fail(M, "err")
  ELSE LET nx == UFromBE(SubSeq(M.file, offset + 1, offset + 8))
       IN Ret(M, [offset |-> offset,
                  next |-> IF nx = 0 THEN <<>> ELSE <<nx>>,
                  size |-> UFromBE(SubSeq(M.file, offset + 9, offset + 16)),
                  data |-> SubSeq(M.file, offset + MetaSizeOnDisk + 1, offset + blocksize)])

\* a view write that copies to the start of the payload whatever the offset
ViewWriteAtPayloadStart(b, start, buf) ==
  LET k == Min(Len(buf), Len(b.data) - start)
  IN [b EXCEPT !.data = [i \in 1..Len(b.data) |-> IF i <= k THEN buf[i] ELSE b.data[i]],
               !.size = @ + k]

\* BlockDiskView::write from start_offset: copies until the payload ends and
\* adds one to meta.size for every byte copied
ViewWrite(b, start, buf) ==
  LET k == Min(Len(buf), Len(b.data) - start)
  IN [b EXCEPT !.data = [i \in 1..Len(b.data) |->
                           IF i > start /\ i <= start + k THEN buf[i - start] ELSE b.data[i]],
               !.size = @ + k]

ViewCount(b, start, n) == Min(n, Len(b.data) - start)

\* ------------------------------------------------ Database: BlockAllocator
\* allocate_block without the write of the header: the count of allocated
\* blocks stays in memory only
AllocateBlockHeaderNotPersisted(M) ==
  IF M.st # "ok" THEN M
  ELSE LET off == M.meta.num_allocated_blocks * BlockSizeOf(M.meta)
           b == BlockNew(off, BlockSizeOf(M.meta))
       IN Then(BlockPersist([M EXCEPT !.meta.num_allocated_blocks = @ + 1], b),
               LAMBDA m : Ret([m EXCEPT !.allocs = Append(@, off)], b))

\* allocate_block that writes the header before it counts the new block
AllocateBlockStaleHeader(M) ==
  IF M.st # "ok" THEN M
  ELSE LET off == M.meta.num_allocated_blocks * BlockSizeOf(M.meta)
           b == BlockNew(off, BlockSizeOf(M.meta))
       IN Then(BlockPersist(Let(MetaPersist(M), LAMBDA m0 :
                                  [m0 EXCEPT !.meta.num_allocated_blocks = @ + 1]), b),
               LAMBDA m : Ret([m EXCEPT !.allocs = Append(@, off)], b))

\* allocate_block that leaves the count of allocated blocks as it was
AllocateBlockSameCount(M) ==
  IF M.st # "ok" THEN M
  ELSE LET off == M.meta.num_allocated_blocks * BlockSizeOf(M.meta)
           b == BlockNew(off, BlockSizeOf(M.meta))
       IN Then(BlockPersist(MetaPersist(M), b),
               LAMBDA m : Ret([m EXCEPT !.allocs = Append(@, off)], b))

AllocateBlock(M) ==
  IF M.st # "ok" THEN M
  ELSE LET off == M.meta.num_allocated_blocks * BlockSizeOf(M.meta)
           b == BlockNew(off, BlockSizeOf(M.meta))
       IN Then(BlockPersist(MetaPersist([M EXCEPT !.meta.num_allocated_blocks = @ + 1]), b),
               LAMBDA m : Ret([m EXCEPT !.allocs = Append(@, off)], b))

ReadBlock(M, offset) == BlockFromDisk(M, offset, BlockSizeOf(M.meta))

WriteBlock(M, b) == BlockPersist(M, b)

\* -------------------------------------------------------------- BlockDisk
BDNew(M, start_block_offset) ==
  Then(ReadBlock(M, start_block_offset), LAMBDA m : [m EXCEPT !.blocks = <<m.ret>>, !.cur = 0])

BDFromBlock(M, start_block) ==
  IF M.st # "ok" THEN M ELSE [M EXCEPT !.blocks = <<start_block>>, !.cur = 0]

BDBlockSize(M) == Len(M.blocks[1].data)

CurrentBlockIdx(M) == M.cur \div BDBlockSize(M)

CurrentSizeAllocated(M) == BDBlockSize(M) * Len(M.blocks)

RECURSIVE SumSizes(_)
SumSizes(blocks) ==
  IF blocks = <<>> THEN 0 ELSE blocks[1].size + SumSizes(Tail(blocks))

CurrentDiskSize(M) == SumSizes(M.blocks)

\* allocate_new_block_at_end that does not record the new block as the
\* next block of the tail
AllocateNewBlockAtEndUnlinked(M) ==
  LET n == Len(M.blocks)
      tail == M.blocks[n]
  IN IF tail.next # <<>> THEN M
     ELSE Then(AllocateBlock(M), LAMBDA m1 :
            Then(WriteBlock(m1, tail), LAMBDA m2 : [m2 EXCEPT !.blocks = Append(@, m1.ret)]))

AllocateNewBlockAtEnd(M) ==
  LET n == Len(M.blocks)
      tail == M.blocks[n]
  IN IF tail.next # <<>> THEN M
     ELSE Then(AllocateBlock(M), LAMBDA m1 :
            LET nb == m1.ret
                cb == [tail EXCEPT !.next = <<nb.offset>>]
            IN Then(WriteBlock([m1 EXCEPT !.blocks[n] = cb], cb),
                    LAMBDA m2 : [m2 EXCEPT !.blocks = Append(@, nb)]))

\* ret: whether a block was added to the loaded list
IncreaseReadSizeByBlock(M, force) ==
  IF M.st # "ok" THEN M
  ELSE LET tail == M.blocks[Len(M.blocks)]
       IN IF tail.next # <<>>
          THEN Then(ReadBlock(M, tail.next[1]),
                    LAMBDA m : Ret([m EXCEPT !.blocks = Append(@, m.ret)], TRUE))
          ELSE IF force
               THEN Then(AllocateNewBlockAtEnd(M), LAMBDA m : Ret(m, TRUE))
               ELSE Ret(M, FALSE)

RECURSIVE EnsureNumBlocks(_, _, _)
\* while blocks.len() < num { increase_read_size_by_block(force)?; }
\* a pass that adds no block leaves the loop condition as it was: the loop
\* never ends
EnsureNumBlocks(M, num, force) ==
  IF M.st # "ok" \/ Len(M.blocks) >= num THEN M
  ELSE Then(IncreaseReadSizeByBlock(M, force),
            LAMBDA m : IF ~m.ret THEN Fail(m, "hang") ELSE EnsureNumBlocks(m, num, force))

RECURSIVE BDReadLoopForcing(_, _, _)
\* the loop of read with ensure_num_blocks(idx + 1, true)
BDReadLoopForcing(M, n, acc) ==
  IF M.st # "ok" THEN M
  ELSE IF n = 0 THEN Ret(M, acc)
  ELSE Then(EnsureNumBlocks(M, CurrentBlockIdx(M) + 1, TRUE), LAMBDA m :
         LET b == m.blocks[CurrentBlockIdx(m) + 1]
             start == m.cur % BDBlockSize(m)
             k == ViewCount(b, start, n)
         IN BDReadLoopForcing([m EXCEPT !.cur = @ + k], n - k,
                              acc \o SubSeq(b.data, start + 1, start + k)))

RECURSIVE BDReadLoop(_, _, _)
BDReadLoop(M, n, acc) ==
  IF M.st # "ok" THEN M
  ELSE IF n = 0 THEN Ret(M, acc)
  ELSE Then(EnsureNumBlocks(M, CurrentBlockIdx(M) + 1, FALSE), LAMBDA m :
         LET b == m.blocks[CurrentBlockIdx(m) + 1]
             start == m.cur % BDBlockSize(m)
             k == ViewCount(b, start, n)
         IN BDReadLoop([m EXCEPT !.cur = @ + k], n - k,
                       acc \o SubSeq(b.data, start + 1, start + k)))

\* io::Read::read into a buffer of n bytes (read_exact: the loop of read
\* fills the buffer in one call or the call does not return Ok)
BDRead(M, n) == BDReadLoop(M, n, <<>>)

RECURSIVE BDWriteUnpersisted(_, _)
\* write that changes the loaded block and leaves out write_block
BDWriteUnpersisted(M, buf) ==
  IF M.st # "ok" \/ buf = <<>> THEN M
  ELSE Then(EnsureNumBlocks(M, CurrentBlockIdx(M) + 1, TRUE), LAMBDA m :
         LET idx == CurrentBlockIdx(m)
             start == m.cur % BDBlockSize(m)
             k == ViewCount(m.blocks[idx + 1], start, Len(buf))
             b == ViewWrite(m.blocks[idx + 1], start, buf)
         IN BDWriteUnpersisted([m EXCEPT !.blocks[idx + 1] = b, !.cur = @ + k],
                               SubSeq(buf, k + 1, Len(buf))))

RECURSIVE BDWrite(_, _)
\* io::Write::write (write_all: the loop of write consumes the whole buffer)
BDWrite(M, buf) ==
  IF M.st # "ok" \/ buf = <<>> THEN M
  ELSE Then(EnsureNumBlocks(M, CurrentBlockIdx(M) + 1, TRUE), LAMBDA m :
         LET idx == CurrentBlockIdx(m)
             start == m.cur % BDBlockSize(m)
             k == ViewCount(m.blocks[idx + 1], start, Len(buf))
             b == ViewWrite(m.blocks[idx + 1], start, buf)
         IN BDWrite(WriteBlock([m EXCEPT !.blocks[idx + 1] = b, !.cur = @ + k], b),
                    SubSeq(buf, k + 1, Len(buf))))

RECURSIVE LoadWholeChain(_)
\* while self.increase_read_size_by_block(false)? {}
LoadWholeChain(M) ==
  Then(IncreaseReadSizeByBlock(M, FALSE), LAMBDA m : IF m.ret THEN LoadWholeChain(m) ELSE m)

RECURSIVE GrowTo(_, _)
\* while current_size_allocated() < next_offset { increase_read_size_by_block(true)?; }
GrowTo(M, next_offset) ==
  IF M.st # "ok" \/ CurrentSizeAllocated(M) >= next_offset THEN M
  ELSE GrowTo(IncreaseReadSizeByBlock(M, TRUE), next_offset)

\* a seek that adds a block to the loaded list before it looks at the target
SeekToGrowingFirst(M, next_offset) ==
  Then(GrowTo(IncreaseReadSizeByBlock(M, TRUE), next_offset),
       LAMBDA m : Ret([m EXCEPT !.cur = next_offset], next_offset))

SeekTo(M, next_offset) ==
  Then(GrowTo(M, next_offset), LAMBDA m : Ret([m EXCEPT !.cur = next_offset], next_offset))

BDSeekStart(M, offset) == IF M.st # "ok" THEN M ELSE SeekTo(M, offset)

\* SeekFrom::End measured on the blocks loaded so far
BDSeekEndLoadedOnly(M, offset) ==
  IF M.st # "ok" THEN M
  ELSE IF offset > 0 \/ CurrentDiskSize(M) + offset < 0 THEN Fail(M, "panic")
  ELSE SeekTo(M, CurrentDiskSize(M) + offset)

BDSeekEnd(M, offset) ==
  Then(LoadWholeChain(M), LAMBDA m :
    IF offset > 0 \/ CurrentDiskSize(m) + offset < 0 THEN Fail(m, "panic")
    ELSE SeekTo(m, CurrentDiskSize(m) + offset))

\* SeekFrom::Current that stops at offset 0 instead of failing
BDSeekCurrentClamped(M, offset) ==
  IF M.st # "ok" THEN M ELSE SeekTo(M, Max(0, M.cur + offset))

BDSeekCurrent(M, offset) ==
  IF M.st # "ok" THEN M
  ELSE IF M.cur + offset < 0 THEN Fail(M, "err")
  ELSE SeekTo(M, M.cur + offset)

RECURSIVE BDWriteAll(_, _)
\* a sequence of write_all calls, one per chunk
BDWriteAll(M, chunks) ==
  IF M.st # "ok" \/ chunks = <<>> THEN M
  ELSE BDWriteAll(BDWrite(M, chunks[1]), Tail(chunks))

\* ------------------------------------------------- schema: fields and kinds
\* FieldKind is [tag, n]: Number(n), Blob(n) or Str(n)
Number(n) == [tag |-> "Number", n |-> n]
Blob(n) == [tag |-> "Blob", n |-> n]
Str(n) == [tag |-> "Str", n |-> n]

KindSize(kind) == IF kind.tag = "Str" THEN kind.n + 8 ELSE kind.n

RECURSIVE CountOnes(_)
\* u8::count_ones
CountOnes(n) == IF n = 0 THEN 0 ELSE (n % 2) + CountOnes(n \div 2)

\* SchemaField::new that checks only that the width is a power of two
SchemaFieldNewAnyPowerOfTwo(kind, name) ==
  IF kind.tag = "Number" /\ CountOnes(kind.n) # 1
  THEN [ok |-> FALSE, field |-> <<>>]
  ELSE [ok |-> TRUE, field |-> [kind |-> kind, name |-> name]]

\* SchemaField::new: ret is the field, or the call fails with
\* FieldError::InvalidNumberType
SchemaFieldNew(kind, name) ==
  IF kind.tag = "Number" /\ (CountOnes(kind.n) # 1 \/ kind.n > 8)
  THEN [ok |-> FALSE, field |-> <<>>]
  ELSE [ok |-> TRUE, field |-> [kind |-> kind, name |-> name]]

RECURSIVE SizeofFields(_)
SizeofFields(fields) ==
  IF fields = <<>> THEN 0 ELSE KindSize(fields[1].kind) + SizeofFields(Tail(fields))

SizeofRow(schema) == SizeofFields(schema.fields)

SizeofRowOnDisk(schema) == SizeofRow(schema) + RowMetaSize

\* the write calls of FieldKind::persist, one chunk per call
KindChunks(kind) ==
  IF kind.tag = "Number" THEN <<BE(NUMBER_TAG, 1), BE(kind.n, 1)>>
  ELSE IF kind.tag = "Blob" THEN <<BE(BLOB_TAG, 1), BE(kind.n, 8)>>
  ELSE <<BE(STR_TAG, 1), BE(kind.n, 8)>>

FieldChunks(field) == <<BE(Len(field.name), 2), field.name>> \o KindChunks(field.kind)

RECURSIVE FieldsChunks(_)
FieldsChunks(fields) ==
  IF fields = <<>> THEN <<>> ELSE FieldChunks(fields[1]) \o FieldsChunks(Tail(fields))

\* one catalog record: name, data_block_offset, field count, fields
TableChunks(t) ==
  <<BE(Len(t.schema.name), 2), t.schema.name, BE(t.data_block_offset, 8),
    BE(Len(t.schema.fields), 2)>> \o FieldsChunks(t.schema.fields)

RECURSIVE TablesChunksLoop(_)
TablesChunksLoop(tables) ==
  IF tables = <<>> THEN <<>> ELSE TableChunks(tables[1]) \o TablesChunksLoop(Tail(tables))

WriteTables(M, tables) ==
  BDWriteAll(M, <<BE(Len(tables), 2)>> \o TablesChunksLoop(tables))

ReadKind(M) ==
  Then(BDRead(M, 1), LAMBDA m1 :
    LET tag == UFromBE(m1.ret)
    IN IF tag = NUMBER_TAG
       THEN Then(BDRead(m1, 1), LAMBDA m2 : Ret(m2, Number(UFromBE(m2.ret))))
       ELSE IF tag = BLOB_TAG
       THEN Then(BDRead(m1, 8), LAMBDA m2 : Ret(m2, Blob(UFromBE(m2.ret))))
       ELSE IF tag = STR_TAG
       THEN Then(BDRead(m1, 8), LAMBDA m2 : Ret(m2, Str(UFromBE(m2.ret))))
       ELSE Fail(m1, "err"))

\* reads a u16 length and that many bytes of UTF-8
ReadName(M) ==
  Then(BDRead(M, 2), LAMBDA m1 :
    Then(BDRead(m1, UFromBE(m1.ret)), LAMBDA m2 :
      IF ~IsUtf8(m2.ret) THEN Fail(m2, "err") ELSE m2))

ReadField(M) ==
  Then(ReadName(M), LAMBDA m1 :
    Then(ReadKind(m1), LAMBDA m2 : Ret(m2, [kind |-> m2.ret, name |-> m1.ret])))

RECURSIVE ReadFields(_, _, _)
ReadFields(M, n, acc) ==
  IF M.st # "ok" THEN M
  ELSE IF n = 0 THEN Ret(M, acc)
  ELSE Then(ReadField(M), LAMBDA m : ReadFields(m, n - 1, Append(acc, m.ret)))

ReadTable(M) ==
  Then(ReadName(M), LAMBDA m1 :
    Then(BDRead(m1, 8), LAMBDA m2 :
      Then(BDRead(m2, 2), LAMBDA m3 :
        Then(ReadFields(m3, UFromBE(m3.ret), <<>>), LAMBDA m4 :
          Ret(m4, [data_block_offset |-> UFromBE(m2.ret),
                   schema |-> [name |-> m1.ret, fields |-> m4.ret]])))))

RECURSIVE ReadTablesLoop(_, _, _)
ReadTablesLoop(M, n, acc) ==
  IF M.st # "ok" THEN M
  ELSE IF n = 0 THEN Ret(M, acc)
  ELSE Then(ReadTable(M), LAMBDA m : ReadTablesLoop(m, n - 1, Append(acc, m.ret)))

ReadTables(M) ==
  Then(BDRead(M, 2), LAMBDA m : ReadTablesLoop(m, UFromBE(m.ret), <<>>))

\* -------------------------------------------------------------- row codec
\* OwnedRowCell is [tag, value, size]: Number{value, size}, Str{value, max_size}
\* or Blob(value) (size is 0 and unused for a Blob)
NumberCell(v, size) == [tag |-> "Number", value |-> v, size |-> size]
StrCell(v, max_size) == [tag |-> "Str", value |-> v, size |-> max_size]
BlobCell(v) == [tag |-> "Blob", value |-> v, size |-> 0]

\* coerce_to that lets a cell of another kind through unchanged
CoerceToAnyKind(cell, kind) ==
  IF cell.tag = "Blob"
  THEN IF kind.tag # "Blob" THEN <<cell>>
       ELSE IF Len(cell.value) >= kind.n
            THEN <<BlobCell(SubSeq(cell.value, 1, kind.n))>>
            ELSE <<BlobCell(cell.value \o Zeros(kind.n - Len(cell.value)))>>
  ELSE IF cell.tag = "Number"
  THEN IF kind.tag # "Number" THEN <<cell>> ELSE <<NumberCell(cell.value, kind.n)>>
  ELSE IF kind.tag # "Str" THEN <<cell>> ELSE <<StrCell(cell.value, kind.n)>>

\* OwnedRowCell::coerce_to: <<>> is None
CoerceTo(cell, kind) ==
  IF cell.tag = "Blob"
  THEN IF kind.tag # "Blob" THEN <<>>
       ELSE IF Len(cell.value) >= kind.n
            THEN <<BlobCell(SubSeq(cell.value, 1, kind.n))>>
            ELSE <<BlobCell(cell.value \o Zeros(kind.n - Len(cell.value)))>>
  ELSE IF cell.tag = "Number"
  THEN IF kind.tag # "Number" THEN <<>> ELSE <<NumberCell(cell.value, kind.n)>>
  ELSE IF kind.tag # "Str" THEN <<>> ELSE <<StrCell(cell.value, kind.n)>>

\* persist that writes a Str without the zeros after its value
CellPersistUnpadded(cell) ==
  IF cell.tag = "Number" THEN [ok |-> TRUE, bytes |-> BE(cell.value, cell.size)]
  ELSE IF cell.tag = "Blob" THEN [ok |-> TRUE, bytes |-> cell.value]
  ELSE IF cell.size < Len(cell.value) THEN [ok |-> FALSE, bytes |-> <<>>]
  ELSE [ok |-> TRUE, bytes |-> BE(Len(cell.value), 8) \o cell.value]

\* OwnedRowCell::persist into the in-memory buffer of the row.  max_size -
\* value.len() underflows for a value longer than max_size: the debug build
\* panics at the subtraction, the release build at the allocation of the
\* wrapped length; no build returns an Err
CellPersist(cell) ==
  IF cell.tag = "Number" THEN [ok |-> TRUE, bytes |-> BE(cell.value, cell.size)]
  ELSE IF cell.tag = "Blob" THEN [ok |-> TRUE, bytes |-> cell.value]
  ELSE IF cell.size < Len(cell.value) THEN [ok |-> FALSE, bytes |-> <<>>]
  ELSE [ok |-> TRUE,
        bytes |-> BE(Len(cell.value), 8) \o cell.value \o Zeros(cell.size - Len(cell.value))]

RECURSIVE RowFromCells(_)
\* Row::from_cells_impl: the payload of the row, or a panic
RowFromCells(cells) ==
  IF cells = <<>> THEN [ok |-> TRUE, bytes |-> <<>>]
  ELSE LET c == CellPersist(cells[1])
           r == RowFromCells(Tail(cells))
       IN IF c.ok /\ r.ok THEN [ok |-> TRUE, bytes |-> c.bytes \o r.bytes]
          ELSE [ok |-> FALSE, bytes |-> <<>>]

RowMetaChunk(is_last_row) == BE(IF is_last_row THEN 1 ELSE 0, RowMetaSize)

InsertSentinalRow(M, schema) ==
  BDWriteAll(M, <<RowMetaChunk(TRUE), Zeros(SizeofRow(schema))>>)

InitTable(M, schema) == InsertSentinalRow(M, schema)

\* Row::insert_row; ret is the stream offset the row was written at
InsertRow(M, row, schema) ==
  Then(BDSeekEnd(M, -SizeofRowOnDisk(schema)), LAMBDA m1 :
    LET r == RowFromCells(row)
    IN IF ~r.ok THEN Fail(m1, "panic")
       ELSE Then(InsertSentinalRow(BDWriteAll(m1, <<RowMetaChunk(FALSE), r.bytes>>), schema),
                 LAMBDA m3 : Ret(m3, m1.cur)))

\* Row::from_schema
RowFromSchema(M, schema) ==
  Then(BDRead(M, RowMetaSize), LAMBDA m1 :
    IF UFromBE(m1.ret) > 1 THEN Fail(m1, "err")
    ELSE Then(BDRead(m1, SizeofRow(schema)), LAMBDA m2 :
           Ret(m2, [is_last_row |-> UFromBE(m1.ret) = 1, data |-> m2.ret])))

\* RowCell::new on the payload from a byte offset: slicing past the end panics
RowCellNew(data, kind, offset) ==
  LET have == Len(data) - offset
      at(a, n) == SubSeq(data, offset + a + 1, offset + a + n)
  IN IF have < 0 THEN [st |-> "panic", cell |-> <<>>]
     ELSE IF kind.tag = "Number"
     THEN IF have < kind.n THEN [st |-> "panic", cell |-> <<>>]
          ELSE [st |-> "ok", cell |-> NumberCell(IFromBE(at(0, kind.n)), kind.n)]
     ELSE IF kind.tag = "Blob"
     THEN IF have < kind.n THEN [st |-> "panic", cell |-> <<>>]
          ELSE [st |-> "ok", cell |-> BlobCell(at(0, kind.n))]
     ELSE IF have < 8 THEN [st |-> "err", cell |-> <<>>]
     ELSE LET len == UFromBE(at(0, 8))
          IN IF have - 8 < kind.n \/ len > kind.n THEN [st |-> "panic", cell |-> <<>>]
             ELSE IF ~IsUtf8(at(8, len)) THEN [st |-> "err", cell |-> <<>>]
             ELSE [st |-> "ok", cell |-> StrCell(at(8, len), kind.n)]

RECURSIVE IntoCellsFrom(_, _, _)
IntoCellsFrom(data, fields, offset) ==
  IF fields = <<>> THEN [st |-> "ok", cells |-> <<>>]
  ELSE LET c == RowCellNew(data, fields[1].kind, offset)
       IN IF c.st # "ok" THEN [st |-> c.st, cells |-> <<>>]
          ELSE LET r == IntoCellsFrom(data, Tail(fields), offset + KindSize(fields[1].kind))
               IN IF r.st # "ok" THEN r
                  ELSE [st |-> "ok", cells |-> <<c.cell>> \o r.cells]

\* Row::into_cells
IntoCells(data, fields) == IntoCellsFrom(data, fields, 0)

\* ---------------------------------------------------------------- Database
\* Database::schema: the catalog, read through a BlockDisk at schema_block_offset
Schema(M) == ReadTables(BDNew(M, M.meta.schema_block_offset))

FindTable(tables, table_name) ==
  LET hits == {i \in 1..Len(tables) : tables[i].schema.name = table_name}
  IN IF hits = {} THEN <<>>
     ELSE <<tables[CHOOSE i \in hits : \A j \in hits : i <= j]>>

GetTable(M, table_name) ==
  Then(Schema(M), LAMBDA m :
    LET t == FindTable(m.ret, table_name)
    IN IF t = <<>> THEN Fail(m, "err") ELSE Ret(m, t[1]))

\* create_table without the seek to the start of the catalog stream before
\* the catalog is written back
CreateTableWithoutRewind(M, schema) ==
  Then(AllocateBlock(M), LAMBDA m1 :
    Then(ReadTables(BDNew(InitTable(BDFromBlock(m1, m1.ret), schema),
                          M.meta.schema_block_offset)), LAMBDA m3 :
      LET ods == [data_block_offset |-> m1.ret.offset, schema |-> schema]
      IN Then(WriteTables(m3, Append(m3.ret, ods)),
              LAMBDA m4 : [m4 EXCEPT !.tabs = Append(@, ods)])))

\* create_table that allocates no block and roots the data chain of the
\* table at the head of the catalog
CreateTableInCatalogBlock(M, schema) ==
  Then(ReadBlock(M, M.meta.schema_block_offset), LAMBDA m1 :
    Then(ReadTables(BDNew(InitTable(BDFromBlock(m1, m1.ret), schema),
                          M.meta.schema_block_offset)), LAMBDA m3 :
      LET ods == [data_block_offset |-> m1.ret.offset, schema |-> schema]
      IN Then(WriteTables(BDSeekStart(m3, 0), Append(m3.ret, ods)),
              LAMBDA m4 : [m4 EXCEPT !.tabs = Append(@, ods)])))

CreateTable(M, schema) ==
  Then(AllocateBlock(M), LAMBDA m1 :
    Then(ReadTables(BDNew(InitTable(BDFromBlock(m1, m1.ret), schema),
                          M.meta.schema_block_offset)), LAMBDA m3 :
      LET ods == [data_block_offset |-> m1.ret.offset, schema |-> schema]
      IN Then(WriteTables(BDSeekStart(m3, 0), Append(m3.ret, ods)),
              LAMBDA m4 : [m4 EXCEPT !.tabs = Append(@, ods)])))

RECURSIVE CoerceRow(_, _)
\* the zip loop of add_row: <<>> when a cell does not coerce
CoerceRow(row, fields) ==
  IF row = <<>> \/ fields = <<>> THEN <<<<>>>>
  ELSE LET c == CoerceTo(row[1], fields[1].kind)
           r == CoerceRow(Tail(row), Tail(fields))
       IN IF c = <<>> \/ r = <<>> THEN <<>> ELSE <<c \o r[1]>>

AddRow(M, table, row) ==
  Then(GetTable(M, table), LAMBDA m1 :
    LET ods == m1.ret
        valid_row == CoerceRow(row, ods.schema.fields)
    IN IF Len(ods.schema.fields) # Len(row) THEN Fail(m1, "err")
       ELSE IF valid_row = <<>> THEN Fail(m1, "err")
       ELSE Then(InsertRow(BDNew(m1, ods.data_block_offset), valid_row[1], ods.schema),
                 LAMBDA m2 : [m2 EXCEPT !.rows = Append(@, [table |-> table,
                                                            cells |-> valid_row[1],
                                                            at |-> m2.ret])]))

\* RowReader::read_nth_row: ret is <<>> (None) or <<row>>
ReadNthRow(M, ods, index) ==
  Then(RowFromSchema(BDSeekStart(BDNew(M, ods.data_block_offset),
                                 SizeofRowOnDisk(ods.schema) * index), ods.schema),
       LAMBDA m : IF m.ret.is_last_row THEN Ret(m, <<>>) ELSE Ret(m, <<m.ret>>))

RECURSIVE ReadTableCells(_, _, _, _)
\* Database::read_table: a SchemaReader pulled with next_row until it yields
\* None, every row turned into cells; ret is the list of rows
ReadTableCells(M, ods, index, acc) ==
  Then(ReadNthRow(M, ods, index), LAMBDA m :
    IF m.ret = <<>> THEN Ret(m, acc)
    ELSE LET cells == IntoCells(m.ret[1].data, ods.schema.fields)
         IN IF cells.st # "ok" THEN Fail(m, cells.st)
            ELSE ReadTableCells(m, ods, index + 1, Append(acc, cells.cells)))

\* ---------------------------------------------------------------- readers
\* SchemaReader is [schema, current_row]
SchemaReaderNew(ods) == [schema |-> ods, current_row |-> 0]

\* SchemaReader::reset
SRReset(rd) == [rd EXCEPT !.current_row = 0]

\* SchemaReader::current_row: ret is <<>> (None) or <<row>>
SRCurrentRow(M, rd) == ReadNthRow(M, rd.schema, rd.current_row)

\* SchemaReader::next_row: ret is [row, rd], the row read (or None) and the
\* reader after the call
SRNextRow(M, rd) ==
  Then(SRCurrentRow(M, rd), LAMBDA m :
    Ret(m, [row |-> m.ret,
            rd |-> IF m.ret # <<>> THEN [rd EXCEPT !.current_row = @ + 1] ELSE rd]))

RECURSIVE MTLoop(_, _, _, _, _)
\* the for loop of MultiTableIterator::next_row over self.tables, from table i
MTLoop(M, tables, i, buf, has_seen_some) ==
  IF M.st # "ok" THEN M
  ELSE IF i > Len(tables) THEN Ret(M, [buf |-> buf, seen |-> has_seen_some, tables |-> tables])
  ELSE Then(SRNextRow(M, tables[i]), LAMBDA m1 :
         IF m1.ret.row # <<>>
         THEN MTLoop(m1, [tables EXCEPT ![i] = m1.ret.rd], i + 1,
                     buf \o m1.ret.row[1].data, TRUE)
         ELSE Then(SRNextRow(m1, SRReset(m1.ret.rd)), LAMBDA m2 :
                IF m2.ret.row = <<>> THEN Fail(m2, "panic")
                ELSE MTLoop(m2, [tables EXCEPT ![i] = m2.ret.rd], i + 1,
                            buf \o m2.ret.row[1].data, has_seen_some)))

\* MultiTableIterator::next_row: ret is [row, tables], the row returned (or
\* None) and the readers after the call
MTNextRow(M, tables) ==
  Then(SRNextRow(M, tables[1]), LAMBDA m1 :
    Then(MTLoop(m1, [tables EXCEPT ![1] = m1.ret.rd], 1,
                IF m1.ret.row # <<>> THEN m1.ret.row[1].data ELSE <<>>,
                m1.ret.row # <<>>), LAMBDA m2 :
      Ret(m2, [row |-> IF m2.ret.seen THEN <<[data |-> m2.ret.buf, is_last_row |-> FALSE]>>
                       ELSE <<>>,
               tables |-> m2.ret.tables])))

\* ------------------------------------------------------------- statements
\* Expr is [e, v, t]: a literal ("num", "str", "blob") with value v, or a
\* column identifier ("col") with name v and optional table t
NumLit(v) == [e |-> "num", v |-> v, t |-> <<>>]
StrLit(v) == [e |-> "str", v |-> v, t |-> <<>>]
BlobLit(v) == [e |-> "blob", v |-> v, t |-> <<>>]
ColIdent(name, table) == [e |-> "col", v |-> name, t |-> table]

\* OwnedRowCell::from_ast_expr: a literal becomes a cell of its natural kind,
\* any other expression is None
FromAstExpr(expr) ==
  IF expr.e = "num" THEN <<NumberCell(expr.v, 8)>>
  ELSE IF expr.e = "str" THEN <<StrCell(expr.v, Len(expr.v))>>
  ELSE IF expr.e = "blob" THEN <<BlobCell(expr.v)>>
  ELSE <<>>

\* SchemaField::from_column_def on [column_name, type, argument]
FromColumnDef(column_def) ==
  LET arg == column_def.argument
  IN IF column_def.type = "Integer"
     THEN SchemaFieldNew(Number((IF arg = <<>> THEN 8 ELSE arg[1]) % 256), column_def.column_name)
     ELSE IF column_def.type = "Blob"
     THEN SchemaFieldNew(Blob(IF arg = <<>> THEN 100 ELSE arg[1]), column_def.column_name)
     ELSE SchemaFieldNew(Str(IF arg = <<>> THEN 128 ELSE arg[1]), column_def.column_name)

\* the CreateTable arm of process_statement without the lookup of the name
ProcessCreateTableUnchecked(M, stmt) ==
  LET defs == [i \in 1..Len(stmt.column_defs) |-> FromColumnDef(stmt.column_defs[i])]
  IN IF \E i \in 1..Len(defs) : ~defs[i].ok THEN Fail(M, "err")
     ELSE Ret(CreateTable(M, [name |-> stmt.table_name,
                              fields |-> [i \in 1..Len(defs) |-> defs[i].field]]), <<>>)

ProcessCreateTable(M, stmt) ==
  LET defs == [i \in 1..Len(stmt.column_defs) |-> FromColumnDef(stmt.column_defs[i])]
  IN Let(GetTable(M, stmt.table_name), LAMBDA m1 :
       IF m1.st = "ok" THEN Fail(m1, "err")
       ELSE IF m1.st # "err" THEN m1
       ELSE IF \E i \in 1..Len(defs) : ~defs[i].ok THEN Fail(M, "err")
       ELSE Ret(CreateTable(M, [name |-> stmt.table_name,
                                fields |-> [i \in 1..Len(defs) |-> defs[i].field]]), <<>>))

\* the index of the first field named name, 0 when there is none
FieldIndex(fields, name) ==
  LET hits == {i \in 1..Len(fields) : fields[i].name = name}
  IN IF hits = {} THEN 0 ELSE CHOOSE i \in hits : \A j \in hits : i <= j

\* a mapping that takes the values in statement order
InsertMappingByPosition(fields, columns) == [f \in 1..Len(fields) |-> f]

\* the BTreeMap field index -> column index built by the 'col loop: a later
\* column naming the same field replaces the earlier entry
InsertMapping(fields, columns) ==
  LET named == {FieldIndex(fields, columns[c]) : c \in 1..Len(columns)}
  IN [f \in named |->
        CHOOSE c \in 1..Len(columns) :
          /\ FieldIndex(fields, columns[c]) = f
          /\ \A d \in 1..Len(columns) : FieldIndex(fields, columns[d]) = f => d <= c]

\* Database::insert_ast_row
InsertAstRow(M, schema, ast, mapping) ==
  IF M.st # "ok" THEN M
  ELSE IF \E i \in 1..Len(schema.fields) : i \notin DOMAIN mapping \/ mapping[i] > Len(ast)
       THEN LET bad == CHOOSE i \in 1..Len(schema.fields) :
                         /\ (i \notin DOMAIN mapping \/ mapping[i] > Len(ast))
                         /\ \A j \in 1..(i - 1) : j \in DOMAIN mapping /\ mapping[j] <= Len(ast)
            IN IF \E j \in 1..(bad - 1) : FromAstExpr(ast[mapping[j]]) = <<>>
               THEN Fail(M, "err") ELSE Fail(M, "panic")
  ELSE LET cells == [i \in 1..Len(schema.fields) |-> FromAstExpr(ast[mapping[i]])]
       IN IF \E i \in 1..Len(cells) : cells[i] = <<>> THEN Fail(M, "err")
          ELSE AddRow(M, schema.name, [i \in 1..Len(cells) |-> cells[i][1]])

RECURSIVE InsertAstRows(_, _, _, _)
InsertAstRows(M, schema, rows, mapping) ==
  IF M.st # "ok" \/ rows = <<>> THEN M
  ELSE InsertAstRows(InsertAstRow(M, schema, rows[1], mapping), schema, Tail(rows), mapping)

ProcessInsert(M, stmt) ==
  Then(GetTable(M, stmt.table), LAMBDA m1 :
    LET schema == m1.ret.schema
    IN IF Len(schema.fields) # Len(stmt.columns) THEN Fail(m1, "err")
       ELSE IF \E c \in 1..Len(stmt.columns) : FieldIndex(schema.fields, stmt.columns[c]) = 0
       THEN Fail(m1, "err")
       ELSE Ret(InsertAstRows(m1, schema, stmt.values,
                              InsertMapping(schema.fields, stmt.columns)), <<>>))

\* ResultColumn is [rc, value, alias]: "asterisk", "tableasterisk" or "expr"
Asterisk == [rc |-> "asterisk", value |-> <<>>, alias |-> <<>>]
TableAsterisk(t) == [rc |-> "tableasterisk", value |-> t, alias |-> <<>>]
ExprColumn(expr, alias) == [rc |-> "expr", value |-> expr, alias |-> alias]

RECURSIVE SchemaMappingStatus(_, _)
\* create_schema_mapping_for_select_statement: what the walk over the result
\* columns ends with (the next_schema and alias_mapping it fills are dropped
\* by the caller)
SchemaMappingStatus(columns, ods) ==
  IF columns = <<>> THEN "ok"
  ELSE LET c == columns[1]
       IN IF c.rc = "tableasterisk" THEN "panic"
          ELSE IF c.rc = "expr" /\ c.value.e = "col"
                  /\ FieldIndex(ods.schema.fields, c.value.v) = 0 THEN "err"
          ELSE SchemaMappingStatus(Tail(columns), ods)

RECURSIVE SelectReaders(_, _, _, _)
SelectReaders(M, columns, tables, acc) ==
  IF M.st # "ok" THEN M
  ELSE IF tables = <<>> THEN Ret(M, acc)
  ELSE Then(GetTable(M, tables[1]), LAMBDA m1 :
         LET ms == SchemaMappingStatus(columns, m1.ret)
         IN IF ms # "ok" THEN Fail(m1, ms)
            ELSE SelectReaders(m1, columns, Tail(tables), Append(acc, m1.ret)))

\* Database::read_select_statement: ret is the operator returned, the fold of
\* the scans of the FROM list
ReadSelectStatement(M, stmt) ==
  IF stmt.tables = <<>> THEN Fail(M, "panic")
  ELSE SelectReaders(M, stmt.columns, stmt.tables[1], <<>>)

\* SchemaReader::schema: one TableField per field, qualified with the table
ReaderSchema(ods) ==
  [i \in 1..Len(ods.schema.fields) |->
     [name |-> ods.schema.fields[i].name, table |-> <<ods.schema.name>>,
      kind |-> ods.schema.fields[i].kind]]

RECURSIVE PullScan(_, _, _)
\* the pull loop of execute_query over a SchemaReader: current_row, next_row,
\* then the callback on the cells of the row
PullScan(M, ods, index) ==
  IF M.st # "ok" THEN M
  ELSE Let(ReadNthRow(M, ods, index), LAMBDA m1 :
         IF m1.st \in {"panic", "hang"} THEN m1
         ELSE Let(ReadNthRow([m1 EXCEPT !.st = "ok"], ods, index), LAMBDA m2 :
                IF m2.st # "ok" THEN m2
                ELSE IF m1.st # "ok" THEN Fail(m2, m1.st)
                ELSE IF m1.ret = <<>> THEN m2
                ELSE LET cells == IntoCells(m1.ret[1].data, ReaderSchema(ods))
                     IN IF cells.st # "ok" THEN Fail(m2, cells.st)
                        ELSE PullScan([m2 EXCEPT !.out[Len(m2.out)].rows = Append(@, cells.cells)],
                                      ods, IF m2.ret = <<>> THEN index ELSE index + 1)))

ProcessStatement(M, stmt) ==
  IF stmt.kind = "create" THEN ProcessCreateTable(M, stmt)
  ELSE IF stmt.kind = "insert" THEN ProcessInsert(M, stmt)
  ELSE Then(ReadSelectStatement(M, stmt), LAMBDA m : Ret(m, <<m.ret>>))

RECURSIVE ExecuteQuery(_, _)
\* Database::execute_query on the parsed statement list
ExecuteQuery(M, ast) ==
  IF M.st # "ok" \/ ast = <<>> THEN M
  ELSE Then(ProcessStatement(M, ast[1]), LAMBDA m1 :
         IF m1.ret = <<>>
         THEN ExecuteQuery([m1 EXCEPT !.out = Append(@, [query |-> FALSE, schema |-> <<>>,
                                                         rows |-> <<>>])], Tail(ast))
         ELSE LET readers == m1.ret[1]
              \* the pull loop starts with current_row, which a
              \* MultiTableIterator does not implement
              IN IF Len(readers) # 1 THEN Fail(m1, "panic")
                 ELSE ExecuteQuery(
                        PullScan([m1 EXCEPT !.out = Append(@, [query |-> TRUE,
                                                    schema |-> ReaderSchema(readers[1]),
                                                    rows |-> <<>>])],
                                 readers[1], 0),
                        Tail(ast)))

\* Database::new on an empty disk, up to the call of meta.persist: the root
\* block and the schema block are on the disk
RootAndSchemaBlocks ==
  LET M0 == [file |-> <<>>, meta |-> MetaNew(Version, BlockSizeExp), st |-> "ok", w |-> -1,
             blocks |-> <<>>, cur |-> 0, ret |-> <<>>, out |-> <<>>, rows |-> <<>>,
             tabs |-> <<>>, allocs |-> <<>>]
      M1 == BlockPersist(M0, BlockNew(0, 2 ^ BlockSizeExp))
  IN BlockPersist(M1, BlockNew(2 ^ BlockSizeExp, 2 ^ BlockSizeExp))

\* Database::new on an empty disk
DatabaseNew == MetaPersist(RootAndSchemaBlocks)

\* the machine a call on the Database starts from
Machine(f, m, w) ==
  [file |-> f, meta |-> m, st |-> "ok", w |-> w, blocks |-> <<>>, cur |-> 0,
   ret |-> <<>>, out |-> <<>>, rows |-> <<>>, tabs |-> <<>>, allocs |-> <<>>]

\* ------------------------------------------------------------ the inputs
\* identifiers and string values are byte sequences (ASCII codes)
Users == <<117, 115, 101, 114, 115>>
Id == <<105, 100>>
Username == <<117, 115, 101, 114, 110, 97, 109, 101>>
TName == <<116>>
ColA == <<97>>
ColS == <<115>>
ColZ == <<122>>
NameAlias == <<110, 97, 109, 101>>

ColumnDef(name, type, argument) == [column_name |-> name, type |-> type, argument |-> argument]
CreateStmt(name, defs) ==
  [kind |-> "create", table_name |-> name, column_defs |-> defs, table |-> <<>>,
   columns |-> <<>>, values |-> <<>>, tables |-> <<>>]
InsertStmt(table, columns, values) ==
  [kind |-> "insert", table_name |-> <<>>, column_defs |-> <<>>, table |-> table,
   columns |-> columns, values |-> values, tables |-> <<>>]
SelectStmt(columns, tables) ==
  [kind |-> "select", table_name |-> <<>>, column_defs |-> <<>>, table |-> <<>>,
   columns |-> columns, values |-> <<>>, tables |-> tables]

CreateUsers ==
  CreateStmt(Users, <<ColumnDef(Id, "Integer", <<8>>), ColumnDef(Username, "Varchar", <<20>>)>>)
CreateT ==
  CreateStmt(TName, <<ColumnDef(ColA, "Integer", <<1>>), ColumnDef(ColS, "Varchar", <<2>>)>>)
CreateBadWidth == CreateStmt(ColZ, <<ColumnDef(ColA, "Integer", <<3>>)>>)

CreateStmts == {CreateUsers, CreateT, CreateBadWidth}

InsUsers1 == InsertStmt(Users, <<Id, Username>>, <<<<NumLit(1), StrLit(<<97>>)>>>>)
InsUsersPerm == InsertStmt(Users, <<Username, Id>>, <<<<StrLit(<<98>>), NumLit(2)>>>>)
InsTTwo ==
  InsertStmt(TName, <<ColA, ColS>>, <<<<NumLit(1), StrLit(<<97, 98>>)>>,
                                      <<NumLit(2), StrLit(<<99>>)>>>>)
InsTPerm == InsertStmt(TName, <<ColS, ColA>>, <<<<StrLit(<<>>), NumLit(255)>>>>)
InsTLong == InsertStmt(TName, <<ColA, ColS>>, <<<<NumLit(3), StrLit(<<97, 98, 99>>)>>>>)
InsTShort == InsertStmt(TName, <<ColA>>, <<<<NumLit(1)>>>>)
InsTUnknown == InsertStmt(TName, <<ColA, ColZ>>, <<<<NumLit(1), StrLit(<<120>>)>>>>)
InsTKind == InsertStmt(TName, <<ColA, ColS>>, <<<<StrLit(<<120>>), StrLit(<<121>>)>>>>)
InsTKindSecond ==
  InsertStmt(TName, <<ColA, ColS>>, <<<<NumLit(4), StrLit(<<100>>)>>,
                                      <<NumLit(5), NumLit(6)>>>>)

InsertStmts ==
  { InsUsers1, InsUsersPerm, InsTTwo, InsTPerm, InsTLong, InsTShort,
    InsTUnknown, InsTKind, InsTKindSecond }

SelUsers == SelectStmt(<<Asterisk>>, <<<<Users>>>>)
SelT == SelectStmt(<<Asterisk>>, <<<<TName>>>>)
SelAlias ==
  SelectStmt(<<ExprColumn(ColIdent(Username, <<Users>>), <<NameAlias>>)>>, <<<<Users>>>>)

SelectStmts == {SelUsers, SelT, SelAlias}

\* no BlockDisk is open.  The fields of stream: head, blocks, cur are the
\* BlockDisk (offset of its first block, loaded blocks, current_offset); op,
\* arg, st, ret are the last call on it, how it ended and the bytes a read
\* returned; was is blocks and cur before that call; shadow is the byte
\* string written through the stream so far, far the largest seek target,
\* unrelated the allocate_block calls made beside the stream, nops the calls,
\* seq whether every write so far started where the written string ended
NoStream ==
  [open |-> FALSE, head |-> 0, blocks |-> <<>>, cur |-> 0, op |-> "none", arg |-> 0,
   st |-> "ok", ret |-> <<>>, was |-> [blocks |-> <<>>, cur |-> 0], shadow |-> <<>>,
   far |-> 0, unrelated |-> 0, nops |-> 0, seq |-> TRUE]

\* no codec function was called yet
NoProbe == [op |-> "none", arg |-> <<>>, res |-> <<>>]

\* ------------------------------------------------------------ the actions
Init ==
  /\ file = DatabaseNew.file
  /\ meta = DatabaseNew.meta
  /\ alive = TRUE
  /\ status = "ok"
  /\ out = <<>>
  /\ rowlog = <<>>
  /\ tablog = <<>>
  /\ lastq = <<>>
  /\ prev = [file |-> <<>>, meta |-> MetaNew(Version, BlockSizeExp), rows |-> 0, tabs |-> 0]
  /\ nstmts = 0
  /\ faults = 0
  /\ stream = NoStream
  /\ probe = NoProbe
  /\ alloclog = <<>>

\* the state after a call of execute_query(ast) that ended as machine R
Apply(R, ast) ==
  /\ file' = R.file
  /\ meta' = R.meta
  /\ alive' = (R.st \in {"ok", "err"})
  /\ status' = R.st
  /\ out' = R.out
  /\ rowlog' = rowlog \o R.rows
  /\ tablog' = tablog \o R.tabs
  /\ alloclog' = alloclog \o R.allocs
  /\ lastq' = ast
  /\ prev' = [file |-> file, meta |-> meta, rows |-> Len(rowlog), tabs |-> Len(tablog)]
  /\ nstmts' = nstmts + 1
  /\ UNCHANGED <<stream, probe>>

\* execute_query(ast) on the open Database, no backing write failing
Run(ast) == Apply(ExecuteQuery(Machine(file, meta, -1), ast), ast) /\ UNCHANGED faults

DoCreate == alive /\ nstmts < MaxStmts /\ \E stmt \in CreateStmts : Run(<<stmt>>)

DoInsert == alive /\ nstmts < MaxStmts /\ \E stmt \in InsertStmts : Run(<<stmt>>)

DoSelect == alive /\ nstmts < MaxStmts /\ \E stmt \in SelectStmts : Run(<<stmt>>)

\* Database::from_disk on the same file, in a new process when the old one
\* panicked
Reopen ==
  /\ meta' = MetaFromDisk(file)
  /\ alive' = TRUE
  /\ status' = "ok"
  /\ out' = <<>>
  /\ lastq' = <<>>
  /\ prev' = [file |-> file, meta |-> meta, rows |-> Len(rowlog), tabs |-> Len(tablog)]
  /\ UNCHANGED <<file, rowlog, tablog, nstmts, faults, stream, probe, alloclog>>

Next == DoCreate \/ DoInsert \/ DoSelect \/ Reopen

Spec == Init /\ [][Next]_vars

\* ------------------------------------------- runs with a failing backing write
PlainStmts == {CreateUsers, InsUsers1, InsUsersPerm, SelUsers}
FaultStmts == {CreateUsers, InsUsers1}

DoStatement == alive /\ nstmts < MaxStmts /\ \E stmt \in PlainStmts : Run(<<stmt>>)

\* execute_query(<<stmt>>) during which the backing write number k + 1 of the
\* call fails
DoFault ==
  /\ alive /\ nstmts < MaxFaultStmts /\ faults < MaxFaults
  /\ \E stmt \in FaultStmts, k \in 0..MaxFaultPoint :
       LET R == ExecuteQuery(Machine(file, meta, k), <<stmt>>)
       IN R.w = -1 /\ Apply(R, <<stmt>>)
  /\ faults' = faults + 1

NextFault == DoStatement \/ DoFault \/ Reopen

SpecFault == Init /\ [][NextFault]_vars

\* ----------------------------------------------------- statement lists
Lists ==
  { <<CreateUsers, InsUsers1, SelUsers>>,
    <<InsUsers1, InsUsersPerm, SelUsers>>,
    <<CreateT, InsTTwo, SelT>>,
    <<InsTPerm, SelT>>,
    <<CreateT, InsTShort, CreateUsers>>,
    <<CreateUsers, CreateUsers, CreateT>>,
    <<InsTKindSecond, SelT, InsTPerm>> }

\* execute_query on a query that parses to a list of statements
DoList == alive /\ nstmts < MaxStmts /\ \E ast \in Lists : Run(ast)

NextList == DoList \/ Reopen

SpecList == Init /\ [][NextList]_vars

\* ------------------------------------------------ a BlockDisk held open
\* the bytes of write number k: never zero, different from write to write
Pattern(k, len) == [i \in 1..len |-> ((k * 16 + i) % 255) + 1]

WriteLens == {1, 48, 49, 100}
ReadLens == {1, 49}
SeekStarts == {0, 48, 97}
SeekCurrents == {-1, -100}
SeekEnds == {0, -1, -49}

\* the Database and the open BlockDisk, about to be called
StreamMachine ==
  [Machine(file, meta, -1) EXCEPT !.blocks = stream.blocks, !.cur = stream.cur]

\* the state after the call op(arg) on the BlockDisk ended as machine R
StreamApply(R, op, arg, ret, shadow, far) ==
  /\ file' = R.file
  /\ meta' = R.meta
  /\ prev' = [file |-> file, meta |-> meta, rows |-> Len(rowlog), tabs |-> Len(tablog)]
  /\ stream' = [stream EXCEPT !.blocks = R.blocks, !.cur = R.cur, !.op = op, !.arg = arg,
                              !.st = R.st, !.ret = ret,
                              !.was = [blocks |-> stream.blocks, cur |-> stream.cur],
                              !.shadow = shadow, !.far = far, !.nops = @ + 1,
                              !.seq = @ /\ (op = "write" => stream.cur = Len(stream.shadow))]
  /\ alloclog' = alloclog \o R.allocs
  /\ UNCHANGED <<alive, status, out, rowlog, tablog, lastq, nstmts, faults, probe>>

StreamReady == stream.open /\ stream.st \in {"ok", "err"} /\ stream.nops < MaxStreamOps

\* let block = db.allocate_block()?; BlockDisk::from_block(&mut db, block)
StreamOpen ==
  /\ ~stream.open
  /\ LET R == AllocateBlock(Machine(file, meta, -1))
     IN /\ file' = R.file
        /\ meta' = R.meta
        /\ prev' = [file |-> file, meta |-> meta, rows |-> Len(rowlog), tabs |-> Len(tablog)]
        /\ stream' = [NoStream EXCEPT !.open = TRUE, !.head = R.ret.offset,
                                      !.blocks = BDFromBlock(R, R.ret).blocks, !.op = "open"]
        /\ alloclog' = alloclog \o R.allocs
  /\ UNCHANGED <<alive, status, out, rowlog, tablog, lastq, nstmts, faults, probe>>

\* blockdisk.write_all(buf)
StreamWrite ==
  /\ StreamReady
  /\ \E len \in WriteLens :
       LET buf == Pattern(stream.nops + 1, len)
           R == BDWrite(StreamMachine, buf)
       IN StreamApply(R, "write", len, <<>>, Overwrite(stream.shadow, stream.cur, buf),
                      stream.far)

\* blockdisk.read(&mut buf) with a buffer of n bytes
StreamRead ==
  /\ StreamReady
  /\ \E n \in ReadLens :
       LET R == BDRead(StreamMachine, n)
       IN StreamApply(R, "read", n, IF R.st = "ok" THEN R.ret ELSE <<>>, stream.shadow,
                      stream.far)

\* blockdisk.seek(SeekFrom::Start(offset))
StreamSeekStart ==
  /\ StreamReady
  /\ \E offset \in SeekStarts :
       StreamApply(BDSeekStart(StreamMachine, offset), "seekstart", offset, <<>>,
                   stream.shadow, Max(stream.far, offset))

\* blockdisk.seek(SeekFrom::Current(offset))
StreamSeekCurrent ==
  /\ StreamReady
  /\ \E offset \in SeekCurrents :
       StreamApply(BDSeekCurrent(StreamMachine, offset), "seekcur", offset, <<>>,
                   stream.shadow, Max(stream.far, stream.cur + offset))

\* blockdisk.seek(SeekFrom::End(offset))
StreamSeekEnd ==
  /\ StreamReady
  /\ \E offset \in SeekEnds :
       LET R == BDSeekEnd(StreamMachine, offset)
       IN StreamApply(R, "seekend", offset, <<>>, stream.shadow, Max(stream.far, R.cur))

\* blockdisk.flush(): Ok(())
StreamFlush ==
  /\ StreamReady
  /\ StreamApply(StreamMachine, "flush", 0, <<>>, stream.shadow, stream.far)

\* db.allocate_block() beside the stream: a block that belongs to no chain
AllocateUnrelated ==
  /\ StreamReady
  /\ LET R == AllocateBlock(Machine(file, meta, -1))
     IN /\ file' = R.file
        /\ meta' = R.meta
        /\ prev' = [file |-> file, meta |-> meta, rows |-> Len(rowlog), tabs |-> Len(tablog)]
        /\ stream' = [stream EXCEPT !.op = "allocate", !.arg = 0, !.ret = <<>>,
                                    !.was = [blocks |-> stream.blocks, cur |-> stream.cur],
                                    !.unrelated = @ + 1, !.nops = @ + 1]
        /\ alloclog' = alloclog \o R.allocs
  /\ UNCHANGED <<alive, status, out, rowlog, tablog, lastq, nstmts, faults, probe>>

\* the BlockDisk is dropped and BlockDisk::new(&mut db, head) opens the chain
\* again
StreamFresh ==
  /\ StreamReady
  /\ StreamApply(BDNew(Machine(file, meta, -1), stream.head), "new", stream.head, <<>>,
                 stream.shadow, stream.far)

NextStream ==
  \/ StreamOpen \/ StreamWrite \/ StreamRead \/ StreamSeekStart \/ StreamSeekCurrent
  \/ StreamFlush \/ AllocateUnrelated \/ StreamFresh

SpecStream == Init /\ [][NextStream]_vars

\* writes, seeks from the start and from the end, and the chain opened anew
NextStreamEnd ==
  StreamOpen \/ StreamWrite \/ StreamSeekStart \/ StreamSeekEnd \/ StreamFresh

SpecStreamEnd == Init /\ [][NextStreamEnd]_vars

\* ------------------------------------------- SELECT over several tables
TabA == <<65>>
TabB == <<66>>
TabC == <<67>>
ColX == <<120>>

CreateOne(name) == CreateStmt(name, <<ColumnDef(ColX, "Integer", <<1>>)>>)
InsOne(name, v) == InsertStmt(name, <<ColX>>, <<<<NumLit(v)>>>>)
SelFrom(names) == SelectStmt(<<Asterisk>>, <<names>>)
\* SELECT * with no FROM list, SELECT A.* FROM A
SelNoFrom == SelectStmt(<<Asterisk>>, <<>>)
SelTableStar == SelectStmt(<<TableAsterisk(TabA)>>, <<<<TabA>>>>)

SelectLists ==
  { <<CreateOne(TabA), InsOne(TabA, 1), CreateOne(TabB), InsOne(TabB, 10)>>,
    <<CreateOne(TabC), InsOne(TabC, 100)>>,
    <<InsOne(TabA, 2), InsOne(TabB, 20)>>,
    <<CreateOne(TabA), CreateOne(TabB), InsOne(TabB, 10), CreateOne(TabC), InsOne(TabC, 100)>>,
    <<SelFrom(<<TabA>>)>>,
    <<SelFrom(<<TabA, TabB>>)>>,
    <<SelFrom(<<TabA, TabB, TabC>>)>>,
    <<SelNoFrom>>,
    <<SelTableStar>> }

DoSelectList == alive /\ nstmts < MaxStmts /\ \E ast \in SelectLists : Run(ast)

NextSelect == DoSelectList \/ Reopen

SpecSelect == Init /\ [][NextSelect]_vars

\* ------------------------------------------- blocks stored and loaded
\* the blocks handed to persist: offsets in and past the file, every form of
\* the next link, size fields below, at and above the payload capacity
BlockOffsets == {64, 128, 256}
BlockNexts == {<<>>, <<0>>, <<64>>, <<192>>}
BlockSizes == {0, 1, 48, 1000}
BlockPayloads == {Zeros(48), Pattern(1, 48), Pattern(2, 48)}

\* the state after a call that works on the disk only
ProbeApply(R, op, arg, res) ==
  /\ file' = R.file
  /\ probe' = [op |-> op, arg |-> arg, res |-> res]
  /\ prev' = [file |-> file, meta |-> meta, rows |-> Len(rowlog), tabs |-> Len(tablog)]
  /\ UNCHANGED <<meta, alive, status, out, rowlog, tablog, lastq, nstmts, faults, stream,
                 alloclog>>

\* block.persist(&mut disk) on a Block with the given fields, once in a
\* behaviour
StoreBlock ==
  /\ probe.op = "none"
  /\ \E offset \in BlockOffsets, next \in BlockNexts, size \in BlockSizes, data \in BlockPayloads :
       LET b == [offset |-> offset, next |-> next, size |-> size, data |-> data]
       IN ProbeApply(BlockPersist(Machine(file, meta, -1), b), "persist", b, <<>>)

\* Block::from_disk(offset, blocksize, &mut disk) at the offset of the block
\* persisted last
LoadBlock ==
  /\ probe.op = "persist"
  /\ LET R == BlockFromDisk(Machine(file, meta, -1), probe.arg.offset, BlockSizeOf(meta))
     IN R.st = "ok" /\ ProbeApply(R, "from_disk", probe.arg, R.ret)

NextBlock == StoreBlock \/ LoadBlock

SpecBlock == Init /\ [][NextBlock]_vars

\* ------------------------------------------- rows encoded and decoded
\* the kinds of the fields of the schemas rows are built for
RowKinds ==
  { <<Number(1), Str(2)>>, <<Blob(2), Number(2)>>, <<Number(4), Number(8), Str(3)>>,
    <<Str(0), Blob(0)>> }

\* the byte strings of at most n bytes over a letter and the NUL character
RECURSIVE StrValues(_)
StrValues(n) ==
  IF n = 0 THEN {<<>>}
  ELSE StrValues(n - 1) \cup
       {Append(v, c) : v \in {u \in StrValues(n - 1) : Len(u) = n - 1}, c \in {0, 97}}

\* cells that conform to a kind: a Number within the signed range of the
\* width (the ends of the range for the widths 1 and 2), a Str of at most
\* max_size bytes, a Blob of exactly the size of the field
ConformingCells(kind) ==
  IF kind.tag = "Number"
  THEN {NumberCell(v, kind.n) :
          v \in IF kind.n = 1 THEN {-128, -1, 0, 127}
                ELSE IF kind.n = 2 THEN {-32768, 255, 32767}
                ELSE IF kind.n = 4 THEN {-65536, 70000}
                ELSE {-1, 1048576}}
  ELSE IF kind.tag = "Str" THEN {StrCell(v, kind.n) : v \in StrValues(kind.n)}
  ELSE {BlobCell(Zeros(kind.n)), BlobCell([i \in 1..kind.n |-> 256 - i])}

RECURSIVE ConformingRows(_)
ConformingRows(kinds) ==
  IF kinds = <<>> THEN {<<>>}
  ELSE {<<c>> \o r : c \in ConformingCells(kinds[1]), r \in ConformingRows(Tail(kinds))}

FieldsOf(kinds) == [i \in 1..Len(kinds) |-> SchemaFieldNew(kinds[i], <<96 + i>>).field]

\* the state after a call that touches neither the disk nor the Database
ProbePure(op, arg, res) ==
  /\ probe' = [op |-> op, arg |-> arg, res |-> res]
  /\ UNCHANGED <<file, meta, alive, status, out, rowlog, tablog, lastq, prev, nstmts, faults,
                 stream, alloclog>>

\* Row::from_cells(cells) for a row that conforms to a schema
EncodeCells ==
  /\ probe.op = "none"
  /\ \E kinds \in RowKinds : \E cells \in ConformingRows(kinds) :
       ProbePure("from_cells", [fields |-> FieldsOf(kinds), cells |-> cells],
                 RowFromCells(cells))

\* row.into_cells(fields) on the row encoded last
DecodeCells ==
  /\ probe.op = "from_cells" /\ probe.res.ok
  /\ ProbePure("into_cells", probe.arg,
               [bytes |-> probe.res.bytes,
                decoded |-> IntoCells(probe.res.bytes, probe.arg.fields)])

NextRow == EncodeCells \/ DecodeCells

SpecRow == Init /\ [][NextRow]_vars

\* ------------------------------------------------ fields constructed
\* the largest u8
U8Max == 2 ^ 8 - 1

\* every Number kind there is, and Str and Blob kinds of a few sizes
FieldKinds ==
  {Number(w) : w \in 0..U8Max} \cup {Str(n) : n \in {0, 3, 256}} \cup {Blob(n) : n \in {0, 3, 256}}

\* SchemaField::new(kind, "id")
NewField ==
  \E kind \in FieldKinds : ProbePure("field_new", kind, SchemaFieldNew(kind, Id))

NextField == NewField

SpecField == Init /\ [][NextField]_vars

\* ---------------------------------------------------------- observations
\* the open Database, about to be called
Here == Machine(file, meta, -1)
\* the Database as it was before the last call
Before == Machine(prev.file, prev.meta, -1)

Catalog == Schema(Here)
CatalogBefore == Schema(Before)

\* the add_row calls on one table that returned Ok, in call order
RowsOf(name) == SelectSeq(rowlog, LAMBDA r : r.table = name)

\* the last call was execute_query on one statement of this kind
IsSingle(kind) == Len(lastq) = 1 /\ lastq[1].kind = kind

\* the table the INSERT of the last call names, as the catalog had it before
\* the call: <<>> when the last call was no INSERT or the table did not exist
TargetBefore ==
  IF IsSingle("insert") /\ CatalogBefore.st = "ok"
  THEN FindTable(CatalogBefore.ret, lastq[1].table) ELSE <<>>

\* the column list names every field of the table exactly once
WellFormedColumns(stmt, fields) ==
  /\ Len(stmt.columns) = Len(fields)
  /\ \A i \in 1..Len(fields) :
       Cardinality({c \in 1..Len(stmt.columns) : stmt.columns[c] = fields[i].name}) = 1

ColumnCountMismatch(stmt, fields) == Len(stmt.columns) # Len(fields)

UnknownColumn(stmt, fields) ==
  \E c \in 1..Len(stmt.columns) : \A i \in 1..Len(fields) : fields[i].name # stmt.columns[c]

\* the value that value row r lists under the name of field i
ValueFor(stmt, fields, r, i) ==
  stmt.values[r][CHOOSE c \in 1..Len(stmt.columns) : stmt.columns[c] = fields[i].name]

KindOfLiteral(expr) ==
  IF expr.e = "num" THEN "Number" ELSE IF expr.e = "str" THEN "Str"
  ELSE IF expr.e = "blob" THEN "Blob" ELSE "None"

RowIncompatible(stmt, fields, r) ==
  \E i \in 1..Len(fields) : KindOfLiteral(ValueFor(stmt, fields, r, i)) # fields[i].kind.tag

RowTooLong(stmt, fields, r) ==
  \E i \in 1..Len(fields) :
    /\ fields[i].kind.tag = "Str"
    /\ ValueFor(stmt, fields, r, i).e = "str"
    /\ Len(ValueFor(stmt, fields, r, i).v) > fields[i].kind.n

\* the first value row that satisfies Bad, 0 when none does
FirstRow(stmt, Bad(_)) ==
  LET hits == {r \in 1..Len(stmt.values) : Bad(r)}
  IN IF hits = {} THEN 0 ELSE CHOOSE r \in hits : \A q \in hits : r <= q

\* the bytes a value takes in a row of a field of this kind, by the file format
EncodeValue(expr, kind) ==
  IF kind.tag = "Number" THEN BE(expr.v, kind.n)
  ELSE IF kind.tag = "Str" THEN BE(Len(expr.v), 8) \o expr.v \o Zeros(kind.n - Len(expr.v))
  ELSE SubSeq(expr.v \o Zeros(kind.n), 1, kind.n)

RECURSIVE EncodeRow(_, _, _, _)
\* value row r laid out in table field order from field i on
EncodeRow(stmt, fields, r, i) ==
  IF i > Len(fields) THEN <<>>
  ELSE EncodeValue(ValueFor(stmt, fields, r, i), fields[i].kind)
         \o EncodeRow(stmt, fields, r, i + 1)

\* n bytes of the data chain of a table from stream offset at
StoredAt(ods, at, n) == BDRead(BDSeekStart(BDNew(Here, ods.data_block_offset), at), n)

\* SELECT * FROM name, run on the open Database
ScanOf(name) == ExecuteQuery(Here, <<SelectStmt(<<Asterisk>>, <<<<name>>>>)>>)

\* what a Database with header m reports of the file: the catalog and, per
\* table, read_table
Reported(m) ==
  LET c == Schema(Machine(file, m, -1))
  IN IF c.st # "ok" THEN <<c.st>>
     ELSE <<c.st, c.ret,
            [i \in 1..Len(c.ret) |->
               LET r == ReadTableCells(Machine(file, m, -1), c.ret[i], 0, <<>>)
               IN <<r.st, r.ret>>]>>

\* --------------------------------------------------------------- properties
\* C1: append determinism.  For every table created and the N rows add_row
\* appended to it, read_nth_row returns the k-th appended row for every index
\* k < N, in insertion order, and index N decodes as the sentinel (none).
C1_AppendDeterminism ==
  \A t \in 1..Len(tablog) :
    LET ods == tablog[t]
        rows == RowsOf(ods.schema.name)
    IN /\ \A k \in 1..Len(rows) :
            LET r == ReadNthRow(Here, ods, k - 1)
            IN /\ r.st = "ok"
               /\ r.ret # <<>>
               /\ r.ret[1].data = RowFromCells(rows[k].cells).bytes
       /\ LET r == ReadNthRow(Here, ods, Len(rows))
          IN r.st = "ok" /\ r.ret = <<>>

\* two rows were appended to one table
C1_TwoRowsAppended ==
  \E t \in 1..Len(tablog) : Len(RowsOf(tablog[t].schema.name)) >= 2

\* C2: data survives across invocations.  After successful statements the
\* Database that from_disk opens on the file is the Database that wrote it:
\* the same header, hence the same catalog and, per table, the same rows in
\* the same order.
C2_SurvivesReopen ==
  (alive /\ status = "ok") =>
    /\ MetaFromDisk(file) = meta
    /\ Reported(MetaFromDisk(file)) = Reported(meta)

\* a Database reopened with from_disk that reports a table with a row in it
C2_ReopenedWithRows ==
  /\ nstmts > 0 /\ lastq = <<>> /\ alive
  /\ Reported(meta)[1] = "ok"
  /\ \E i \in 1..Len(Reported(meta)[2]) :
       Reported(meta)[3][i][1] = "ok" /\ Len(Reported(meta)[3][i][2]) >= 1

\* C3: after a CREATE TABLE or INSERT that failed on a backing write, every
\* scan of every table of the catalog still terminates.
C3_ScansTerminateAfterFault ==
  (faults > 0 /\ alive /\ Catalog.st = "ok") =>
    \A i \in 1..Len(Catalog.ret) : ScanOf(Catalog.ret[i].schema.name).st # "hang"

\* C4: statements of one list run in list order, each complete before the
\* next starts: a SELECT that ends a list returns every row the INSERTs of
\* the list appended to its table.
C4_SelectSeesListInserts ==
  (status = "ok" /\ Len(lastq) >= 2 /\ lastq[Len(lastq)].kind = "select") =>
    LET name == lastq[Len(lastq)].tables[1][1]
        seen == out[Len(out)].rows
    IN \A j \in (prev.rows + 1)..Len(rowlog) :
         rowlog[j].table = name =>
           \E p \in 1..Len(seen) :
             RowFromCells(seen[p]).bytes = RowFromCells(rowlog[j].cells).bytes

\* C5: CREATE TABLE with a name the catalog already holds returns an error
\* and changes nothing: the file, the catalog and num_allocated_blocks are
\* as before the call.
C5_DuplicateCreateRejected ==
  (/\ IsSingle("create")
   /\ CatalogBefore.st = "ok"
   /\ FindTable(CatalogBefore.ret, lastq[1].table_name) # <<>>) =>
    /\ status = "err"
    /\ file = prev.file
    /\ meta.num_allocated_blocks = prev.meta.num_allocated_blocks
    /\ Catalog.ret = CatalogBefore.ret
    /\ Len(tablog) = prev.tabs

\* a CREATE TABLE of an existing table was rejected
C5_DuplicateWasTried ==
  /\ IsSingle("create")
  /\ CatalogBefore.st = "ok"
  /\ FindTable(CatalogBefore.ret, lastq[1].table_name) # <<>>
  /\ status = "err"

\* the kind a column definition declares
DeclaredKind(column_def) ==
  LET arg == column_def.argument
  IN IF column_def.type = "Integer" THEN Number(IF arg = <<>> THEN 8 ELSE arg[1])
     ELSE IF column_def.type = "Blob" THEN Blob(IF arg = <<>> THEN 100 ELSE arg[1])
     ELSE Str(IF arg = <<>> THEN 128 ELSE arg[1])

\* C6: the catalog is append-only and order-preserving.  Reading the catalog
\* yields exactly the entries of the successful create_table calls, in
\* creation order (so no later create changes an earlier entry), and the
\* entry a successful CREATE TABLE adds has the declared name and fields.
C6_CatalogIsCreateLog ==
  /\ Catalog.st = "ok"
  /\ Catalog.ret = tablog
  /\ (IsSingle("create") /\ status = "ok") =>
       LET e == Catalog.ret[Len(Catalog.ret)].schema
           defs == lastq[1].column_defs
       IN /\ Len(tablog) = prev.tabs + 1
          /\ e.name = lastq[1].table_name
          /\ Len(e.fields) = Len(defs)
          /\ \A i \in 1..Len(defs) :
               /\ e.fields[i].name = defs[i].column_name
               /\ e.fields[i].kind = DeclaredKind(defs[i])

\* two tables created and the catalog chain longer than its first block
C6_CatalogAcrossBlocks ==
  /\ Len(tablog) = 2
  /\ Catalog.st = "ok" /\ Len(Catalog.ret) = 2
  /\ ReadBlock(Here, meta.schema_block_offset).ret.next # <<>>

\* the INSERT of the last call is one the column checks or the coercion of a
\* value row must reject
RejectableInsert ==
  /\ TargetBefore # <<>>
  /\ LET stmt == lastq[1]
         fields == TargetBefore[1].schema.fields
     IN \/ ColumnCountMismatch(stmt, fields)
        \/ UnknownColumn(stmt, fields)
        \/ /\ WellFormedColumns(stmt, fields)
           /\ \E r \in 1..Len(stmt.values) : RowIncompatible(stmt, fields, r)

AcceptableInsert ==
  /\ TargetBefore # <<>>
  /\ LET stmt == lastq[1]
         fields == TargetBefore[1].schema.fields
     IN /\ WellFormedColumns(stmt, fields)
        /\ \A r \in 1..Len(stmt.values) :
             ~RowIncompatible(stmt, fields, r) /\ ~RowTooLong(stmt, fields, r)

\* C8: INSERT stores by column name.  For every order of the columns in the
\* column list, the row written holds, for each table field, the value
\* listed under that field's name, laid out in table field order.
C8_InsertByColumnName ==
  AcceptableInsert =>
    LET stmt == lastq[1]
        ods == TargetBefore[1]
    IN /\ status = "ok"
       /\ Len(rowlog) = prev.rows + Len(stmt.values)
       /\ \A r \in 1..Len(stmt.values) :
            LET entry == rowlog[prev.rows + r]
                stored == StoredAt(ods, entry.at, SizeofRowOnDisk(ods.schema))
            IN /\ entry.table = stmt.table
               /\ stored.st = "ok"
               /\ stored.ret = RowMetaChunk(FALSE) \o EncodeRow(stmt, ods.schema.fields, r, 1)

\* an INSERT whose column list is not in table field order was stored
C8_PermutedInsertStored ==
  /\ AcceptableInsert
  /\ status = "ok"
  /\ lastq[1].columns[1] # TargetBefore[1].schema.fields[1].name

\* C9: an INSERT with a Str value longer than the declared maximum of its
\* field returns an error, and nothing is written when it is the first row.
C9_TooLongStrIsError ==
  (/\ TargetBefore # <<>>
   /\ WellFormedColumns(lastq[1], TargetBefore[1].schema.fields)
   /\ \A r \in 1..Len(lastq[1].values) :
        ~RowIncompatible(lastq[1], TargetBefore[1].schema.fields, r)
   /\ RowTooLong(lastq[1], TargetBefore[1].schema.fields, 1)) =>
    status = "err" /\ file = prev.file /\ Len(rowlog) = prev.rows

\* the names a SELECT over one table must report: the fields of the table for
\* *, the alias of an aliased column, the column name otherwise
RECURSIVE ProjectedNames(_, _)
ProjectedNames(columns, fields) ==
  IF columns = <<>> THEN <<>>
  ELSE LET c == columns[1]
       IN (IF c.rc = "asterisk" THEN [i \in 1..Len(fields) |-> fields[i].name]
           ELSE IF c.alias # <<>> THEN <<c.alias[1]>>
           ELSE <<c.value.v>>) \o ProjectedNames(Tail(columns), fields)

\* C10: the schema a SELECT reports has one field per result column, *
\* expanded to the fields of the table and an aliased column under its
\* alias, and every row has one cell per reported field.
C10_SelectReportsProjection ==
  (/\ IsSingle("select") /\ status = "ok"
   /\ Catalog.st = "ok"
   /\ FindTable(Catalog.ret, lastq[1].tables[1][1]) # <<>>) =>
    LET fields == FindTable(Catalog.ret, lastq[1].tables[1][1])[1].schema.fields
        names == ProjectedNames(lastq[1].columns, fields)
    IN /\ [i \in 1..Len(out[1].schema) |-> out[1].schema[i].name] = names
       /\ \A p \in 1..Len(out[1].rows) : Len(out[1].rows[p]) = Len(names)

\* the value rows the INSERTs into table name appended before the last call
RowsBefore(name) ==
  SelectSeq(SubSeq(rowlog, 1, prev.rows), LAMBDA e : e.table = name)

\* the tables of the FROM list of the last call, looked up before the call
FromTables ==
  [i \in 1..Len(lastq[1].tables[1]) |-> FindTable(CatalogBefore.ret, lastq[1].tables[1][i])]

\* the last call was a SELECT over n tables, each of them in the catalog
SelectOver(n) ==
  /\ IsSingle("select")
  /\ lastq[1].tables # <<>>
  /\ Len(lastq[1].tables[1]) = n
  /\ \A c \in 1..Len(lastq[1].columns) : lastq[1].columns[c].rc = "asterisk"
  /\ CatalogBefore.st = "ok"
  /\ \A i \in 1..n : FromTables[i] # <<>>

\* C11: SELECT * FROM A, B over non-empty A and B returns |A| * |B| rows, row
\* i (from 0) being row (i mod |A|) of A followed by row (i div |A|) of B.
C11_CrossJoinOrder ==
  (/\ SelectOver(2)
   /\ RowsBefore(lastq[1].tables[1][1]) # <<>>
   /\ RowsBefore(lastq[1].tables[1][2]) # <<>>) =>
    LET A == RowsBefore(lastq[1].tables[1][1])
        B == RowsBefore(lastq[1].tables[1][2])
    IN /\ status = "ok"
       /\ Len(out[1].rows) = Len(A) * Len(B)
       /\ \A i \in 0..(Len(out[1].rows) - 1) :
            RowFromCells(out[1].rows[i + 1]).bytes =
              RowFromCells(A[(i % Len(A)) + 1].cells).bytes
                \o RowFromCells(B[(i \div Len(A)) + 1].cells).bytes

RECURSIVE MTPull(_, _, _, _)
\* next_row on a MultiTableIterator until it returns None, at most fuel
\* times; ret is [rows, done]
MTPull(M, tables, acc, fuel) ==
  IF fuel = 0 THEN Ret(M, [rows |-> acc, done |-> FALSE])
  ELSE Then(MTNextRow(M, tables), LAMBDA m :
         IF m.ret.row = <<>> THEN Ret(m, [rows |-> acc, done |-> TRUE])
         ELSE MTPull(m, m.ret.tables, Append(acc, m.ret.row[1].data), fuel - 1))

\* C12: next_row on the cross join of three tables, pulled until it returns
\* None, yields |A| * |B| * |C| rows, and row i starts with row (i mod |A|)
\* of A.
C12_CrossJoinCardinality ==
  SelectOver(3) =>
    LET A == RowsBefore(lastq[1].tables[1][1])
        B == RowsBefore(lastq[1].tables[1][2])
        C == RowsBefore(lastq[1].tables[1][3])
        n == Len(A) * Len(B) * Len(C)
        pulled == MTPull(Here, [i \in 1..3 |-> SchemaReaderNew(FromTables[i][1])], <<>>, n + 1)
    IN /\ pulled.st = "ok"
       /\ pulled.ret.done
       /\ Len(pulled.ret.rows) = n
       /\ \A i \in 0..(Len(pulled.ret.rows) - 1) :
            LET a == RowFromCells(A[(i % Len(A)) + 1].cells).bytes
            IN SubSeq(pulled.ret.rows[i + 1], 1, Len(a)) = a

\* C14: a SELECT with no FROM list, and a SELECT with a table.* result column
\* over a table of the catalog, return an error and the Database takes
\* further statements.
C14_PlanFailuresAreErrors ==
  (/\ IsSingle("select")
   /\ \/ lastq[1].tables = <<>>
      \/ /\ \E c \in 1..Len(lastq[1].columns) : lastq[1].columns[c].rc = "tableasterisk"
         /\ CatalogBefore.st = "ok"
         /\ \A i \in 1..Len(lastq[1].tables[1]) :
              FindTable(CatalogBefore.ret, lastq[1].tables[1][i]) # <<>>) =>
    status = "err" /\ alive

RECURSIVE SRPull(_, _, _, _)
\* next_row on a SchemaReader until it returns None, at most fuel times; ret
\* is [rows, rd, done]
SRPull(M, rd, acc, fuel) ==
  IF fuel = 0 THEN Ret(M, [rows |-> acc, rd |-> rd, done |-> FALSE])
  ELSE Then(SRNextRow(M, rd), LAMBDA m :
         IF m.ret.row = <<>> THEN Ret(m, [rows |-> acc, rd |-> m.ret.rd, done |-> TRUE])
         ELSE SRPull(m, m.ret.rd, Append(acc, m.ret.row[1].data), fuel - 1))

\* C13: the scan of a table into which N rows were inserted.  current_row
\* does not advance; next_row adds one to the index exactly when it read a
\* row; pulling yields the N rows once each in insertion order and then None
\* on every further pull, the index ending at N; reset puts the index at 0.
C13_ScanStateMachine ==
  \A t \in 1..Len(tablog) :
    LET ods == tablog[t]
        rows == RowsOf(ods.schema.name)
        N == Len(rows)
        pulled == SRPull(Here, SchemaReaderNew(ods), <<>>, N + 1)
    IN /\ \A idx \in 0..N :
            LET rd == [schema |-> ods, current_row |-> idx]
                c1 == SRCurrentRow(Here, rd)
                c2 == SRCurrentRow(c1, rd)
                nx == SRNextRow(Here, rd)
            IN /\ c1.st = "ok" /\ c2.st = "ok" /\ c1.ret = c2.ret
               /\ nx.st = "ok" /\ nx.ret.row = c1.ret
               /\ nx.ret.rd.current_row = (IF c1.ret # <<>> THEN idx + 1 ELSE idx)
       /\ pulled.st = "ok" /\ pulled.ret.done
       /\ pulled.ret.rd.current_row = N
       /\ pulled.ret.rows = [k \in 1..N |-> RowFromCells(rows[k].cells).bytes]
       /\ SRNextRow(pulled, pulled.ret.rd).ret.row = <<>>
       /\ SRReset(pulled.ret.rd).current_row = 0

\* the part of C13 that is about the reader alone: with N the number of rows
\* read_nth_row yields before its first None
C13_ScanFollowsReadNthRow ==
  \A t \in 1..Len(tablog) :
    LET ods == tablog[t]
        pulled == SRPull(Here, SchemaReaderNew(ods), <<>>, Len(rowlog) + 1)
    IN /\ pulled.st = "ok" /\ pulled.ret.done
       /\ pulled.ret.rd.current_row = Len(pulled.ret.rows)
       /\ \A k \in 1..Len(pulled.ret.rows) :
            ReadNthRow(Here, ods, k - 1).ret = <<[is_last_row |-> FALSE, data |-> pulled.ret.rows[k]]>>
       /\ ReadNthRow(Here, ods, Len(pulled.ret.rows)).ret = <<>>

\* ----------------------------------------------------- the open BlockDisk
\* payload bytes of one block
Payload == BlockSizeOf(meta) - MetaSizeOnDisk

\* byte k (from 1) of the logical stream: what was written there, zero where
\* nothing was
Logical(k) == IF k <= Len(stream.shadow) THEN stream.shadow[k] ELSE 0

RECURSIVE ChainFrom(_, _)
\* the blocks of the chain that starts at offset, as the file holds them; at
\* most fuel blocks
ChainFrom(offset, fuel) ==
  LET b == ReadBlock(Here, offset)
  IN IF fuel = 0 \/ b.st # "ok" THEN <<>>
     ELSE <<b.ret>> \o (IF b.ret.next = <<>> THEN <<>> ELSE ChainFrom(b.ret.next[1], fuel - 1))

Chain == ChainFrom(stream.head, meta.num_allocated_blocks)

\* a BlockDisk opened at the head with BlockDisk::new reads n1 bytes and then
\* n2 bytes from offset 0
FreshRead(n1, n2) ==
  Let(BDRead(BDSeekStart(BDNew(Here, stream.head), 0), n1), LAMBDA m1 :
    Let(BDRead(m1, n2), LAMBDA m2 :
      [st |-> m2.st, bytes |-> IF m2.st = "ok" THEN m1.ret \o m2.ret ELSE <<>>]))

\* C15: what was written through the BlockDisk, in whatever write calls, is
\* what reads return: a read call that returned gave the bytes of the logical
\* stream from the cursor on, and a BlockDisk opened at the head reads the
\* written string back whole or split in two read calls at any of the
\* points 1, Payload - 1, Payload, Payload + 1.
C15_StreamRoundTrip ==
  (stream.open /\ stream.st \in {"ok", "err"}) =>
    /\ (stream.op = "read" /\ stream.st = "ok") =>
         /\ Len(stream.ret) = stream.arg
         /\ stream.cur = stream.was.cur + stream.arg
         /\ \A i \in 1..stream.arg : stream.ret[i] = Logical(stream.was.cur + i)
    /\ \A j \in {0, 1, Payload - 1, Payload, Payload + 1} :
         j <= Len(stream.shadow) =>
           LET r == FreshRead(j, Len(stream.shadow) - j)
           IN r.st = "ok" /\ r.bytes = stream.shadow

\* a read call returned bytes of two blocks, written by two write calls
C15_ReadAcrossBlocks ==
  /\ stream.op = "read" /\ stream.st = "ok"
  /\ stream.was.cur < Payload /\ stream.cur > Payload
  /\ \E i \in 1..Len(stream.ret) : stream.ret[i] # 0
  /\ Len(stream.shadow) > Payload

\* C16: after writes that cover K > 0 bytes from offset 0 (no seek went
\* past the written bytes), the chain on the file has ceil(K / Payload)
\* blocks, linked in the order of their allocation, the last without a next
\* link, and the allocator counts no other new block than these and the ones
\* allocated beside the stream.
C16_ChainGrowth ==
  (stream.open /\ stream.shadow # <<>> /\ stream.far <= Len(stream.shadow)) =>
    LET K == Len(stream.shadow)
    IN /\ Len(Chain) = (K + Payload - 1) \div Payload
       /\ Chain[1].offset = stream.head
       /\ \A i \in 1..(Len(Chain) - 1) :
            Chain[i].next = <<Chain[i + 1].offset>> /\ Chain[i].offset < Chain[i + 1].offset
       /\ Chain[Len(Chain)].next = <<>>
       /\ meta.num_allocated_blocks = 2 + Len(Chain) + stream.unrelated

\* the chain grew past a block that was allocated beside the stream
C16_ChainSkipsUnrelatedBlock ==
  /\ stream.open /\ stream.shadow # <<>> /\ stream.far <= Len(stream.shadow)
  /\ stream.unrelated > 0
  /\ Len(Chain) >= 2
  /\ Chain[2].offset > Chain[1].offset + BlockSizeOf(meta)

\* exactly Payload bytes were written and the chain is the head alone
C16_FullBlockNoSecond ==
  /\ stream.open /\ stream.op = "write" /\ Len(stream.shadow) = Payload
  /\ Len(Chain) = 1

\* C17: a read call on the BlockDisk allocates nothing: after it the backing
\* file (so every block's next link) and the DatabaseMeta with its block
\* count are what they were before, however the read ended.
C17_ReadNeverAllocates ==
  stream.op = "read" =>
    /\ file = prev.file
    /\ meta = prev.meta
    /\ \A i \in 1..Len(stream.was.blocks) : stream.blocks[i] = stream.was.blocks[i]

\* a read call loaded a further block of the chain
C17_ReadLoadedBlock ==
  /\ stream.op = "read" /\ stream.st = "ok"
  /\ Len(stream.blocks) > Len(stream.was.blocks)

\* C18: a read call on the BlockDisk always returns, with a short count when
\* the chain ends before the request is satisfied.
C18_ReadAlwaysReturns ==
  stream.op = "read" => stream.st # "hang"

\* C19: when a write call has returned, every block the BlockDisk holds is on
\* the file as it is in memory, and a BlockDisk opened at the head reads the
\* written string; flush changes nothing.
C19_WritesArePersisted ==
  /\ (stream.op = "write" /\ stream.st = "ok") =>
       /\ \A i \in 1..Len(stream.blocks) :
            ReadBlock(Here, stream.blocks[i].offset).ret = stream.blocks[i]
       /\ FreshRead(Len(stream.shadow), 0).bytes = stream.shadow
  /\ stream.op = "flush" =>
       /\ stream.st = "ok"
       /\ file = prev.file /\ meta = prev.meta
       /\ stream.blocks = stream.was.blocks /\ stream.cur = stream.was.cur

\* a write call that filled one block and went on into a new one
C19_WriteTouchedTwoBlocks ==
  /\ stream.op = "write" /\ stream.st = "ok"
  /\ stream.was.cur < Payload /\ stream.cur > Payload
  /\ Len(stream.blocks) > Len(stream.was.blocks)

\* C20: SeekFrom::Current with an offset that would put the cursor below 0
\* returns an error; the cursor, the loaded blocks, the file and the block
\* count stay as they were.
C20_NegativeSeekRejected ==
  (stream.op = "seekcur" /\ stream.was.cur + stream.arg < 0) =>
    /\ stream.st = "err"
    /\ stream.cur = stream.was.cur
    /\ stream.blocks = stream.was.blocks
    /\ file = prev.file
    /\ meta = prev.meta

\* such a seek was tried with the cursor away from 0
C20_NegativeSeekTried ==
  /\ stream.op = "seekcur" /\ stream.was.cur + stream.arg < 0
  /\ stream.was.cur > 0
  /\ stream.st = "err"

\* ---------------------------------------------------------------- blocks
\* C21 as stated: a block loaded after persist has the next link, the size
\* and the payload of the block that was persisted, whatever its next link
C21_BlockRoundTripAnyLink ==
  probe.op = "from_disk" =>
    /\ probe.res.next = probe.arg.next
    /\ probe.res.size = probe.arg.size
    /\ probe.res.data = probe.arg.data

\* C21 amended: a block whose next link is none or an offset other than 0,
\* loaded after persist at the same offset with the same block size, has the
\* next link, the size and the payload of the block that was persisted; a
\* next link of Some(0) is loaded as None
C21_BlockRoundTrip ==
  probe.op = "from_disk" =>
    /\ probe.res.next = (IF probe.arg.next = <<0>> THEN <<>> ELSE probe.arg.next)
    /\ probe.res.offset = probe.arg.offset
    /\ probe.res.size = probe.arg.size
    /\ probe.res.data = probe.arg.data

\* a block with a next link, a size above the capacity and a payload without
\* zeros was persisted past the end of the file and loaded
C21_LinkedBlockLoaded ==
  /\ probe.op = "from_disk"
  /\ probe.arg.offset = 256 /\ probe.arg.next = <<192>> /\ probe.arg.size = 1000
  /\ probe.arg.data = Pattern(2, 48)
  /\ probe.res.next = <<192>>

\* ------------------------------------------------------------------ rows
\* C22: the cells of a row that conforms to a schema, encoded by from_cells,
\* make a payload of exactly sizeof_row(schema) bytes, and into_cells with the
\* fields of the schema decodes that payload to cells equal to the originals
C22_RowRoundTrip ==
  /\ probe.op = "from_cells" =>
        /\ probe.res.ok
        /\ Len(probe.res.bytes) = SizeofRow([fields |-> probe.arg.fields])
  /\ probe.op = "into_cells" =>
        /\ probe.res.decoded.st = "ok"
        /\ probe.res.decoded.cells = probe.arg.cells
        /\ Len(probe.res.bytes) = SizeofRow([fields |-> probe.arg.fields])

\* a row of three cells was decoded: a negative Number of 4 bytes, a Number of
\* 8 bytes and a Str shorter than its field that holds a NUL character
C22_PaddedStrDecoded ==
  /\ probe.op = "into_cells"
  /\ probe.arg.cells = <<NumberCell(-65536, 4), NumberCell(1048576, 8), StrCell(<<97, 0>>, 3)>>
  /\ probe.res.decoded.st = "ok"

\* ---------------------------------------------------------------- fields
\* C23: SchemaField::new with kind Number(w) returns a field exactly when w
\* is 1, 2, 4 or 8, for every w a u8 can hold; every other width is refused
C23_NumberWidths ==
  (probe.op = "field_new" /\ probe.arg.tag = "Number") =>
    /\ probe.res.ok <=> probe.arg.n \in {1, 2, 4, 8}
    /\ probe.res.ok => probe.res.field = [kind |-> probe.arg, name |-> Id]

\* a width that is a power of two and more than 8 was refused
C23_SixteenRefused ==
  probe.op = "field_new" /\ probe.arg = Number(16) /\ ~probe.res.ok

SlotMeta(ods, i) == StoredAt(ods, i * SizeofRowOnDisk(ods.schema), RowMetaSize)

\* C25: after CREATE TABLE and N inserts the k-th insert wrote its row at byte
\* offset (k - 1) * (2 + row_width) of the data stream, the slots 0..N-1 hold
\* is_last_row = 0 and slot N, the only sentinel among the slots 0..N, holds
\* is_last_row = 1
C25_SentinelLayout ==
  \A t \in 1..Len(tablog) :
    LET ods == tablog[t]
        rows == RowsOf(ods.schema.name)
    IN /\ \A k \in 1..Len(rows) :
            /\ rows[k].at = (k - 1) * SizeofRowOnDisk(ods.schema)
            /\ SlotMeta(ods, k - 1).st = "ok"
            /\ SlotMeta(ods, k - 1).ret = RowMetaChunk(FALSE)
       /\ SlotMeta(ods, Len(rows)).st = "ok"
       /\ SlotMeta(ods, Len(rows)).ret = RowMetaChunk(TRUE)

\* a table holds two inserted rows
C25_SecondRowInserted ==
  \E t \in 1..Len(tablog) : Len(RowsOf(tablog[t].schema.name)) = 2

\* ----------------------------------------------------- the size of a block
\* the size field of loaded block i before the last call (0: not loaded then)
SizeWas(i) == IF i <= Len(stream.was.blocks) THEN stream.was.blocks[i].size ELSE 0

\* the cursor of the view on block i when the last write left it: the write
\* covered the stream offsets was.cur .. cur - 1
ViewCursorAfter(i) == Min(stream.cur, i * Payload) - (i - 1) * Payload

WriteTouched(i) == stream.was.cur < i * Payload /\ stream.cur > (i - 1) * Payload

\* C26: a write through a block view leaves the size of the block at the
\* larger of its size before and the cursor after the write, so a write over
\* bytes already written leaves it unchanged, and no block has a size above
\* its payload capacity, block_size - 16
C26_SizeIsHighWaterMark ==
  /\ \A i \in 1..Len(stream.blocks) : stream.blocks[i].size <= Payload
  /\ (stream.op = "write" /\ stream.st = "ok") =>
        \A i \in 1..Len(stream.blocks) :
          stream.blocks[i].size =
            IF WriteTouched(i) THEN Max(SizeWas(i), ViewCursorAfter(i)) ELSE SizeWas(i)

\* a write went over bytes that an earlier write had written
C26_Overwritten ==
  /\ stream.op = "write" /\ stream.st = "ok"
  /\ stream.was.cur < Len(stream.shadow) /\ SizeWas(1) > 0 /\ stream.was.cur = 0

\* ------------------------------------------------------ seek from the end
RECURSIVE ChainSizeIn(_, _, _)
\* the sum of the size fields of the chain that starts at offset in the file
\* f, and the number of its blocks; at most fuel blocks
ChainSizeIn(f, offset, fuel) ==
  LET b == ReadBlock(Machine(f, meta, -1), offset)
  IN IF fuel = 0 \/ b.st # "ok" THEN [size |-> 0, len |-> 0]
     ELSE LET rest == IF b.ret.next = <<>> THEN [size |-> 0, len |-> 0]
                      ELSE ChainSizeIn(f, b.ret.next[1], fuel - 1)
          IN [size |-> b.ret.size + rest.size, len |-> 1 + rest.len]

\* the chain of the open BlockDisk as the file held it before the last call
ChainWas == ChainSizeIn(prev.file, stream.head, prev.meta.num_allocated_blocks)

\* C27 as stated: seek(SeekFrom::End(d)) with d <= 0 loads the whole chain and
\* sets the cursor to L + d, L the sum of the size fields of the chain
C27_SeekEndAlwaysPositions ==
  stream.op = "seekend" =>
    /\ stream.st = "ok"
    /\ Len(stream.blocks) >= ChainWas.len
    /\ stream.cur = ChainWas.size + stream.arg

\* C27 amended: seek(SeekFrom::End(d)) with d <= 0 and L + d >= 0 follows
\* the next links until the whole chain is loaded, not only the blocks loaded
\* before, and sets the cursor to L + d, L the sum of the size fields of all
\* blocks of the chain; L = K for a chain written from offset 0 on with K
\* bytes, every write starting where the one before ended; with L + d < 0
\* the call panics after loading the chain
C27_SeekEnd ==
  stream.op = "seekend" =>
    /\ Len(stream.blocks) >= ChainWas.len
    /\ \A i \in 1..ChainWas.len : stream.blocks[i].offset = Chain[i].offset
    /\ stream.seq => ChainWas.size = Len(stream.shadow)
    /\ IF ChainWas.size + stream.arg >= 0
       THEN stream.st = "ok" /\ stream.cur = ChainWas.size + stream.arg
       ELSE stream.st = "panic"

\* the seek was made through a BlockDisk that had loaded the head only of a
\* chain of three blocks, written in one piece
C27_SeekEndLoadedTheRest ==
  /\ stream.op = "seekend" /\ stream.st = "ok" /\ stream.seq
  /\ Len(stream.was.blocks) = 1 /\ ChainWas.len = 3
  /\ stream.cur = Len(stream.shadow) + stream.arg /\ stream.arg < 0

\* ------------------------------------------------------------- allocation
\* C28: the blocks allocate_block returned are at positive multiples of
\* block_size, none at 0 and none at the head of the catalog, each at a larger
\* offset than every block returned before it and all below the offset the
\* next allocation will return, also for a Database opened from the file; the
\* count of allocated blocks goes up by one with each call of allocate_block
\* (2 plus the number of blocks returned when no call failed) and never down
\* over a call on the Database
C28_AllocationMonotonic ==
  /\ \A i \in 1..Len(alloclog) :
        /\ alloclog[i] > 0
        /\ alloclog[i] % BlockSizeOf(meta) = 0
        /\ alloclog[i] # meta.schema_block_offset
        /\ alloclog[i] < meta.num_allocated_blocks * BlockSizeOf(meta)
        /\ alloclog[i] < MetaFromDisk(file).num_allocated_blocks * BlockSizeOf(meta)
        /\ \A j \in 1..(i - 1) : alloclog[j] < alloclog[i]
  /\ meta.num_allocated_blocks >= 2 + Len(alloclog)
  /\ faults = 0 => meta.num_allocated_blocks = 2 + Len(alloclog)
  /\ lastq # <<>> => meta.num_allocated_blocks >= prev.meta.num_allocated_blocks

\* a Database opened from the file after a call failed allocated a block,
\* the second or a later one of the behaviour
C28_AllocatedAfterFailure ==
  /\ faults > 0 /\ Len(alloclog) >= 2
  /\ lastq # <<>> /\ status = "ok"
  /\ meta.num_allocated_blocks > prev.meta.num_allocated_blocks

\* --------------------------------------------------- the stored header
\* the Database that from_disk opens on the file, about to be called
Reopened == Machine(file, MetaFromDisk(file), -1)

\* C29: as long as no backing write failed, the header stored at offset 0
\* holds the num_allocated_blocks of the header in memory after every call
\* that allocated; and at every boundary between calls, a failed call
\* included, the first block a Database opened from the file allocates is at
\* an offset where no block was allocated before, at or past the end of the
\* file
C29_HeaderTracksAllocation ==
  /\ faults = 0 => MetaFromDisk(file) = meta
  /\ AllocateBlock(Reopened).st = "ok"
  /\ LET off == AllocateBlock(Reopened).ret.offset
     IN /\ off >= Len(file)
        /\ off \notin {0, meta.schema_block_offset}
        /\ \A i \in 1..Len(alloclog) : off >= alloclog[i] + BlockSizeOf(meta)

\* the last call allocated a block, not the first one of the behaviour, and
\* returned
C29_HeaderRewritten ==
  /\ Len(alloclog) >= 2 /\ status = "ok"
  /\ meta.num_allocated_blocks > prev.meta.num_allocated_blocks
  /\ MetaFromDisk(file).num_allocated_blocks = 2 + Len(alloclog)

\* ---------------------------------------------------------------- chains
RECURSIVE ChainOffsets(_, _)
\* the offsets of the blocks reached by next links from offset, as the file
\* holds them; the walk stops after fuel blocks
ChainOffsets(offset, fuel) ==
  LET b == ReadBlock(Here, offset)
  IN IF fuel = 0 \/ b.st # "ok" THEN <<>>
     ELSE <<offset>> \o (IF b.ret.next = <<>> THEN <<>>
                         ELSE ChainOffsets(b.ret.next[1], fuel - 1))

\* the heads of the chains: the catalog, then the tables in catalog order
ChainHeads ==
  <<meta.schema_block_offset>> \o
  [t \in 1..Len(Catalog.ret) |-> Catalog.ret[t].data_block_offset]

\* a walk of one block more than were ever allocated: a chain with a cycle
\* fills it and repeats an offset
ChainOf(h) == ChainOffsets(ChainHeads[h], meta.num_allocated_blocks + 1)

\* C30: after any sequence of CREATE TABLE and INSERT statements the chain of
\* the catalog and the data chains of the tables are pairwise disjoint sets
\* of blocks, none holds block 0, every chain ends (no offset twice, a last
\* block without next link) and the tables have distinct data_block_offset
\* values
C30_ChainsDisjoint ==
  /\ Catalog.st = "ok"
  /\ \A h \in 1..Len(ChainHeads) :
        /\ ChainOf(h) # <<>>
        /\ Len(ChainOf(h)) <= meta.num_allocated_blocks
        /\ \A i \in 1..Len(ChainOf(h)) :
              /\ ChainOf(h)[i] # 0
              /\ ReadBlock(Here, ChainOf(h)[i]).st = "ok"
              /\ \A j \in 1..(i - 1) : ChainOf(h)[j] # ChainOf(h)[i]
        /\ ReadBlock(Here, ChainOf(h)[Len(ChainOf(h))]).ret.next = <<>>
        /\ \A g \in 1..(h - 1) :
              /\ ChainHeads[g] # ChainHeads[h]
              /\ \A i \in 1..Len(ChainOf(h)), j \in 1..Len(ChainOf(g)) :
                    ChainOf(h)[i] # ChainOf(g)[j]

\* two tables exist, the catalog and the data chain of one of the tables have
\* more than one block each
C30_SeveralLongChains ==
  /\ Catalog.st = "ok" /\ Len(ChainHeads) = 3
  /\ Len(ChainOf(1)) >= 2
  /\ \E h \in 2..3 : Len(ChainOf(h)) >= 2

\* ------------------------------------------------- the schema mapping
\* TableField is [column, kind, literal]: column is <<>> or <<[name, table]>>,
\* literal is <<>> or <<cell>>, the cell the literal of the field becomes
TableField(column, kind, literal) == [column |-> column, kind |-> kind, literal |-> literal]

\* SchemaReader::schema as TableFields
SRSchema(rd) ==
  [i \in 1..Len(rd.schema.schema.fields) |->
     TableField(<<[name |-> rd.schema.schema.fields[i].name,
                   table |-> <<rd.schema.schema.name>>]>>,
                rd.schema.schema.fields[i].kind, <<>>)]

\* the byte offset of field i of prev_schema in the payload of a row
PrevOffset(prev_schema, i) == SizeofFields(SubSeq(prev_schema, 1, i - 1))

\* the key a field of prev_schema is entered under: its alias when
\* alias_mapping has one, else its column
RealName(field, alias_mapping) ==
  IF field.column[1] \in DOMAIN alias_mapping
  THEN [name |-> alias_mapping[field.column[1]], table |-> <<>>]
  ELSE field.column[1]

\* MapSchema::new: prev_schema_lookup, where a later field entered under the
\* same key replaces the earlier one.  MapSchema is [prev_schema_lookup,
\* schema, iter]
MapSchemaNew(prev_schema, schema, alias_mapping, iter) ==
  LET named == {i \in 1..Len(prev_schema) : prev_schema[i].column # <<>>}
      keys == {RealName(prev_schema[i], alias_mapping) : i \in named}
      last(k) == CHOOSE i \in named :
                   /\ RealName(prev_schema[i], alias_mapping) = k
                   /\ \A j \in named : RealName(prev_schema[j], alias_mapping) = k => j <= i
  IN [prev_schema_lookup |-> [k \in keys |-> [field |-> prev_schema[last(k)],
                                              offset |-> PrevOffset(prev_schema, last(k))]],
      schema |-> schema,
      iter |-> iter]

RECURSIVE MSCells(_, _, _, _)
\* the loop of MapSchema::current_row over self.schema from field i
MSCells(ms, data, i, next_row) ==
  IF i > Len(ms.schema) THEN [st |-> "ok", cells |-> next_row]
  ELSE LET field == ms.schema[i]
       IN IF field.literal # <<>>
          THEN LET row_val == CoerceTo(field.literal[1], field.kind)
               IN IF row_val = <<>> THEN [st |-> "panic", cells |-> <<>>]
                  ELSE MSCells(ms, data, i + 1, Append(next_row, row_val[1]))
          ELSE IF field.column = <<>> THEN [st |-> "err", cells |-> <<>>]
          ELSE IF field.column[1] \notin DOMAIN ms.prev_schema_lookup
          THEN [st |-> "err", cells |-> <<>>]
          ELSE LET hit == ms.prev_schema_lookup[field.column[1]]
                   c == RowCellNew(data, hit.field.kind, hit.offset)
               IN IF c.st # "ok" THEN [st |-> c.st, cells |-> <<>>]
                  ELSE MSCells(ms, data, i + 1, Append(next_row, c.cell))

\* MapSchema::current_row: ret is [row, ms], the row returned (or None) and
\* the operator after the call; the row comes from self.iter.next_row
MSCurrentRow(M, ms) ==
  Then(SRNextRow(M, ms.iter), LAMBDA m :
    LET after == [ms EXCEPT !.iter = m.ret.rd]
    IN IF m.ret.row = <<>> THEN Ret(m, [row |-> <<>>, ms |-> after])
       ELSE LET c == MSCells(ms, m.ret.row[1].data, 1, <<>>)
                r == RowFromCells(c.cells)
            IN IF c.st # "ok" THEN Fail(m, c.st)
               ELSE IF ~r.ok THEN Fail(m, "panic")
               ELSE Ret(m, [row |-> <<[data |-> r.bytes, is_last_row |-> FALSE]>>,
                            ms |-> after]))

\* MapSchema::next_row: self.iter.next_row, its row dropped, then current_row
MSNextRow(M, ms) ==
  Then(SRNextRow(M, ms.iter), LAMBDA m :
    MSCurrentRow(m, [ms EXCEPT !.iter = m.ret.rd]))

RECURSIVE MSPull(_, _, _, _)
\* next_row on a MapSchema until it returns None, at most fuel times; ret is
\* [rows, ms, done]
MSPull(M, ms, acc, fuel) ==
  IF fuel = 0 THEN Ret(M, [rows |-> acc, ms |-> ms, done |-> FALSE])
  ELSE Then(MSNextRow(M, ms), LAMBDA m :
         IF m.ret.row = <<>> THEN Ret(m, [rows |-> acc, ms |-> m.ret.ms, done |-> TRUE])
         ELSE MSPull(m, m.ret.ms, Append(acc, m.ret.row[1].data), fuel - 1))

\* the mapping of a scan of table ods onto the scan's own schema
MapOver(ods) ==
  LET rd == SchemaReaderNew(ods)
  IN MapSchemaNew(SRSchema(rd), SRSchema(rd), << >>, rd)

\* C31: the schema mapping over a scan does not advance its child in
\* current_row, advances it exactly once in next_row, and pulled to
\* exhaustion yields as many rows as the child does, the i-th from the
\* child's i-th row.
C31_MappingFollowsChild ==
  \A t \in 1..Len(tablog) :
    LET ms == MapOver(tablog[t])
        child == SRPull(Here, ms.iter, <<>>, Len(rowlog) + 1)
        cur == MSCurrentRow(Here, ms)
        nxt == MSNextRow(Here, ms)
        pulled == MSPull(Here, ms, <<>>, Len(rowlog) + 1)
    IN /\ cur.st = "ok" /\ cur.ret.ms.iter = ms.iter
       /\ nxt.st = "ok" /\ nxt.ret.ms.iter = SRNextRow(Here, ms.iter).ret.rd
       /\ pulled.st = "ok" /\ pulled.ret.done
       /\ pulled.ret.rows = child.ret.rows

\* a table whose scan yields a row, under a mapping
C31_MappedScanHasRow ==
  \E t \in 1..Len(tablog) : SRPull(Here, SchemaReaderNew(tablog[t]), <<>>, 1).ret.rows # <<>>

\* the file offsets whose byte a call of meta.persist on machine M changes
ModifiedByHeaderWrite(M) ==
  LET after == MetaPersist(M).file
  IN {i - 1 : i \in {j \in 1..Len(after) : j > Len(M.file) \/ after[j] # M.file[j]}}

\* C32: a header write changes no byte at file offset 16 or higher: neither
\* the write that ends the creation of the database nor the write that an
\* allocation in the current state makes.
C32_HeaderWriteInsideHeaderRegion ==
  /\ \A o \in ModifiedByHeaderWrite(RootAndSchemaBlocks) : o < MetaSizeOnDisk
  /\ \A o \in ModifiedByHeaderWrite([Here EXCEPT !.meta.num_allocated_blocks = @ + 1]) :
       o < MetaSizeOnDisk

\* the header was written again by an allocation
C32_HeaderWrittenAgain == alloclog # <<>>

\* ------------------------------------------------------------ the tokenizer
\* the text of a query is a sequence of ASCII codes
\* char::to_lowercase on an ASCII character
LowerChar(c) == IF c >= 65 /\ c <= 90 THEN c + 32 ELSE c

\* str::to_lowercase
ToLowercase(s) == [i \in 1..Len(s) |-> LowerChar(s[i])]

\* str::starts_with
StartsWith(s, p) == Len(s) >= Len(p) /\ SubSeq(s, 1, Len(p)) = p

\* Sql::keywords, in the order of the list: as null x create table integer
\* varchar insert into values value select from, none of them case sensitive
Keywords ==
  << [text |-> <<97, 115>>, token |-> "As"],
     [text |-> <<110, 117, 108, 108>>, token |-> "Null"],
     [text |-> <<120>>, token |-> "X"],
     [text |-> <<99, 114, 101, 97, 116, 101>>, token |-> "Create"],
     [text |-> <<116, 97, 98, 108, 101>>, token |-> "Table"],
     [text |-> <<105, 110, 116, 101, 103, 101, 114>>, token |-> "Integer"],
     [text |-> <<118, 97, 114, 99, 104, 97, 114>>, token |-> "Varchar"],
     [text |-> <<105, 110, 115, 101, 114, 116>>, token |-> "Insert"],
     [text |-> <<105, 110, 116, 111>>, token |-> "Into"],
     [text |-> <<118, 97, 108, 117, 101, 115>>, token |-> "Values"],
     [text |-> <<118, 97, 108, 117, 101>>, token |-> "Value"],
     [text |-> <<115, 101, 108, 101, 99, 116>>, token |-> "Select"],
     [text |-> <<102, 114, 111, 109>>, token |-> "From"] >>

\* Sql::punctuation, in the order of the list: , . ( ) ; *
Punctuation ==
  << [text |-> <<44>>, token |-> "Comma"],
     [text |-> <<46>>, token |-> "Period"],
     [text |-> <<40>>, token |-> "LeftParen"],
     [text |-> <<41>>, token |-> "RightParen"],
     [text |-> <<59>>, token |-> "SemiColon"],
     [text |-> <<42>>, token |-> "Asterisk"] >>

\* the character classes of Sql::regexes: [a-zA-Z_], [a-zA-Z_0-9] (which is
\* \w on ASCII text) and [0-9]
IsIdentStart(c) == (c >= 97 /\ c <= 122) \/ (c >= 65 /\ c <= 90) \/ c = 95
IsDigit(c) == c >= 48 /\ c <= 57
IsWordChar(c) == IsIdentStart(c) \/ IsDigit(c)

RECURSIVE WordRun(_, _)
\* how many characters of s from index i on are word characters
WordRun(s, i) == IF i <= Len(s) /\ IsWordChar(s[i]) THEN 1 + WordRun(s, i + 1) ELSE 0

RECURSIVE DigitRun(_, _)
DigitRun(s, i) == IF i <= Len(s) /\ IsDigit(s[i]) THEN 1 + DigitRun(s, i + 1) ELSE 0

\* TokenStream::peek_punctuation: <<>> or <<punc>>
PeekPunctuation(s) ==
  LET hits == {i \in 1..Len(Punctuation) : StartsWith(s, Punctuation[i].text)}
  IN IF hits = {} THEN <<>> ELSE <<Punctuation[CHOOSE i \in hits : \A j \in hits : i <= j]>>

\* TokenStream::peek_keyword: the first keyword of the list that the next
\* key.text.len() characters spell, whatever follows them
PeekKeyword(s) ==
  LET hits == {i \in 1..Len(Keywords) :
                 /\ Len(s) >= Len(Keywords[i].text)
                 /\ ToLowercase(SubSeq(s, 1, Len(Keywords[i].text))) = Keywords[i].text}
  IN IF hits = {} THEN <<>> ELSE <<Keywords[CHOOSE i \in hits : \A j \in hits : i <= j]>>

\* TokenStream::peek_regexes: the first of the three anchored patterns that
\* matches, with the length of its match; <<>> when none does
PeekRegexes(s) ==
  IF s # <<>> /\ IsIdentStart(s[1]) THEN <<[token |-> "Ident", len |-> WordRun(s, 1)]>>
  ELSE IF s # <<>> /\ s[1] = 39 /\ Len(s) >= 2 + WordRun(s, 2) /\ s[2 + WordRun(s, 2)] = 39
  THEN <<[token |-> "StringLiteral", len |-> 2 + WordRun(s, 2)]>>
  ELSE IF s # <<>> /\ IsDigit(s[1]) THEN <<[token |-> "NumericLiteral", len |-> DigitRun(s, 1)]>>
  ELSE <<>>

\* TokenStream::peek_token on the text from off: [st, kind, len], st "eof"
\* for Error::end_of_input and "err" for an unexpected character
PeekToken(buf, off) ==
  LET s == SubSeq(buf, off + 1, Len(buf))
  IN IF s = <<>> THEN [st |-> "eof", kind |-> "", len |-> 0]
     ELSE IF PeekPunctuation(s) # <<>>
     THEN [st |-> "ok", kind |-> PeekPunctuation(s)[1].token, len |-> Len(PeekPunctuation(s)[1].text)]
     ELSE IF PeekKeyword(s) # <<>>
     THEN [st |-> "ok", kind |-> PeekKeyword(s)[1].token, len |-> Len(PeekKeyword(s)[1].text)]
     ELSE IF PeekRegexes(s) # <<>>
     THEN [st |-> "ok", kind |-> PeekRegexes(s)[1].token, len |-> PeekRegexes(s)[1].len]
     ELSE [st |-> "err", kind |-> "", len |-> 0]

RECURSIVE SkipWhitespace(_, _)
\* TokenStream::skip_whitespace: the offset after carriage returns, tabs,
\* newlines and spaces (Sql has no comments)
SkipWhitespace(buf, off) ==
  IF off < Len(buf) /\ buf[off + 1] \in {9, 10, 13, 32} THEN SkipWhitespace(buf, off + 1)
  ELSE off

\* StreamOnce::uncons at off: [st, token, off], the token and the offset
\* after it and the whitespace behind it.  next_state only repeats the
\* answer of an earlier call at the same offset
Uncons(buf, off) ==
  LET p == PeekToken(buf, off)
  IN IF p.st # "ok" THEN [st |-> p.st, token |-> <<>>, off |-> off]
     ELSE [st |-> "ok",
           token |-> [kind |-> p.kind, value |-> SubSeq(buf, off + 1, off + p.len)],
           off |-> SkipWhitespace(buf, off + p.len)]

RECURSIVE UnconsAll(_, _, _)
\* uncons until it fails: [toks, st], the tokens and how the last call ended
UnconsAll(buf, off, toks) ==
  LET u == Uncons(buf, off)
  IN IF u.st # "ok" THEN [toks |-> toks, st |-> u.st]
     ELSE UnconsAll(buf, u.off, Append(toks, u.token))

\* TokenStream::new(Sql(()), s) read to its end
Tokenize(buf) == UnconsAll(buf, SkipWhitespace(buf, 0), <<>>)

\* ------------------------------------------------- words tokenized
\* the words handed to the tokenizer: a keyword (in lower case or with a
\* capital) or one of a, id, _, Cre, followed by one of the endings
\* "", d_at, 2, s, X, _, tro, age, pos
WordStarts ==
  {Keywords[i].text : i \in 1..Len(Keywords)} \cup
  {<<Keywords[i].text[1] - 32>> \o Tail(Keywords[i].text) : i \in 1..Len(Keywords)} \cup
  {<<97>>, <<105, 100>>, <<95>>, <<67, 114, 101>>}

WordEnds ==
  {<<>>, <<100, 95, 97, 116>>, <<50>>, <<115>>, <<88>>, <<95>>, <<116, 114, 111>>, <<97, 103, 101>>, <<112, 111, 115>>}

Words == {a \o b : a \in WordStarts, b \in WordEnds}

\* TokenStream::new on a word, read to its end
TokenizeWord == \E w \in Words : ProbePure("tokenize", w, Tokenize(w))

NextTok == TokenizeWord

SpecTok == Init /\ [][NextTok]_vars

\* the whole of s matches the identifier pattern
IsIdentifier(s) == s # <<>> /\ IsIdentStart(s[1]) /\ WordRun(s, 1) = Len(s)

\* s spells a keyword, in any case
IsKeyword(s) == \E i \in 1..Len(Keywords) : ToLowercase(s) = Keywords[i].text

\* C33: a word that matches the identifier pattern and is not a keyword is
\* tokenized as one Ident token holding the whole word, also when it begins
\* with a keyword.
C33_IdentifierIsOneToken ==
  (probe.op = "tokenize" /\ IsIdentifier(probe.arg) /\ ~IsKeyword(probe.arg)) =>
    /\ probe.res.st = "eof"
    /\ probe.res.toks = <<[kind |-> "Ident", value |-> probe.arg]>>

\* an identifier that begins with a keyword was tokenized
C33_KeywordPrefixedWord ==
  /\ probe.op = "tokenize" /\ IsIdentifier(probe.arg) /\ ~IsKeyword(probe.arg)
  /\ PeekKeyword(probe.arg) # <<>>

\* --------------------------------------------------------------- the parser
\* The result of a parser started at token pos: [st, pos, val, consumed].
\* st is "ok" (pos is the next token, val the output), "err" (consumed tells
\* whether tokens were taken before the failure: combine's ConsumedErr and
\* EmptyErr) or "panic" (an unwrap in a map closure).  A token the tokenizer
\* cannot produce ends the token list: uncons fails there without consuming,
\* as it does at the end of the input
POk(pos, val) == [st |-> "ok", pos |-> pos, val |-> val, consumed |-> FALSE]
PErr(consumed) == [st |-> "err", pos |-> 0, val |-> <<>>, consumed |-> consumed]
PPanic == [st |-> "panic", pos |-> 0, val |-> <<>>, consumed |-> TRUE]

\* a sequence of parsers: r is the result of the ones before, started at
\* start, F the rest; a failure after a token was taken is a consumed one
AndThen(start, r, F(_)) ==
  IF r.st # "ok" THEN r
  ELSE LET q == F(r)
       IN IF q.st = "err" THEN PErr(q.consumed \/ r.pos # start) ELSE q

\* Parser::map on a result
MapVal(r, F(_)) == IF r.st = "ok" THEN POk(r.pos, F(r.val)) ELSE r

\* combinator::attempt: a failure counts as one that consumed nothing
Attempt(r) == IF r.st = "err" THEN PErr(FALSE) ELSE r

\* choice::optional of a parser started at pos
Optional(pos, r) ==
  IF r.st = "err" /\ ~r.consumed THEN POk(pos, <<>>)
  ELSE IF r.st = "ok" THEN POk(r.pos, <<r.val>>)
  ELSE r

\* choice of two: the second is tried when the first failed and consumed
\* nothing
OrElse(r, alt) == IF r.st = "err" /\ ~r.consumed THEN alt ELSE r

\* token(kind): satisfy on the kind of the next token; val is its text
TokenP(toks, pos, kind) ==
  IF pos <= Len(toks) /\ toks[pos].kind = kind THEN POk(pos + 1, toks[pos].value)
  ELSE PErr(FALSE)

IdentP(toks, pos) == TokenP(toks, pos, "Ident")

RECURSIVE DecimalValue(_)
\* str::parse::<i64> on a run of digits; values of Huge and more are not
\* told apart (the texts parsed have literals of at most three digits)
DecimalValue(digits) ==
  IF digits = <<>> THEN 0
  ELSE LET hi == DecimalValue(SubSeq(digits, 1, Len(digits) - 1))
       IN IF hi >= Huge \div 10 THEN Huge ELSE hi * 10 + (digits[Len(digits)] - 48)

NumericLiteralP(toks, pos) ==
  MapVal(TokenP(toks, pos, "NumericLiteral"), LAMBDA v : DecimalValue(v))

\* string_literal: the text between the quotes
StringLiteralP(toks, pos) ==
  MapVal(TokenP(toks, pos, "StringLiteral"), LAMBDA v : SubSeq(v, 2, Len(v) - 1))

\* the value of a hexadecimal digit, -1 for any other character
HexValue(c) ==
  IF c >= 48 /\ c <= 57 THEN c - 48
  ELSE IF c >= 97 /\ c <= 102 THEN c - 87
  ELSE IF c >= 65 /\ c <= 70 THEN c - 55
  ELSE -1

\* hex::decode: <<>> for an Err (odd length, a character that is no digit),
\* else <<bytes>>
HexDecode(s) ==
  IF Len(s) % 2 # 0 \/ \E i \in 1..Len(s) : HexValue(s[i]) < 0 THEN <<>>
  ELSE <<[i \in 1..(Len(s) \div 2) |-> 16 * HexValue(s[2 * i - 1]) + HexValue(s[2 * i])]>>

\* blob_literal: X, a string literal, and hex::decode(..).unwrap()
BlobLiteralP(toks, pos) ==
  AndThen(pos, TokenP(toks, pos, "X"), LAMBDA r :
    LET s == StringLiteralP(toks, r.pos)
    IN IF s.st # "ok" THEN s
       ELSE IF HexDecode(s.val) = <<>> THEN PPanic
       ELSE POk(s.pos, HexDecode(s.val)[1]))

LiteralValueP(toks, pos) ==
  OrElse(MapVal(NumericLiteralP(toks, pos), LAMBDA v : NumLit(v)),
         OrElse(MapVal(StringLiteralP(toks, pos), LAMBDA v : StrLit(v)),
                MapVal(BlobLiteralP(toks, pos), LAMBDA v : BlobLit(v))))

ColumnIdentP(toks, pos) ==
  OrElse(Attempt(AndThen(pos, IdentP(toks, pos), LAMBDA t :
                   AndThen(t.pos, TokenP(toks, t.pos, "Period"), LAMBDA p :
                     MapVal(IdentP(toks, p.pos), LAMBDA n : ColIdent(n, <<t.val>>))))),
         MapVal(IdentP(toks, pos), LAMBDA n : ColIdent(n, <<>>)))

ExprP(toks, pos) == OrElse(LiteralValueP(toks, pos), ColumnIdentP(toks, pos))

\* type: INTEGER or VARCHAR
TypeP(toks, pos) ==
  OrElse(MapVal(TokenP(toks, pos, "Integer"), LAMBDA v : "Integer"),
         MapVal(TokenP(toks, pos, "Varchar"), LAMBDA v : "Varchar"))

\* type_name: val is [name, argument]
TypeNameP(toks, pos) ==
  AndThen(pos, TypeP(toks, pos), LAMBDA t :
    MapVal(Optional(t.pos,
                    AndThen(t.pos, TokenP(toks, t.pos, "LeftParen"), LAMBDA l :
                      AndThen(l.pos, NumericLiteralP(toks, l.pos), LAMBDA n :
                        MapVal(TokenP(toks, n.pos, "RightParen"), LAMBDA v : n.val)))),
           LAMBDA arg : [name |-> t.val, argument |-> arg]))

ColumnDefP(toks, pos) ==
  AndThen(pos, IdentP(toks, pos), LAMBDA n :
    MapVal(TypeNameP(toks, n.pos), LAMBDA t : ColumnDef(n.val, t.name, t.argument)))

\* the alias of a result column: optional((optional(AS), ident))
AliasP(toks, pos) ==
  Optional(pos, LET as == Optional(pos, TokenP(toks, pos, "As"))
                IN AndThen(pos, as, LAMBDA a : IdentP(toks, a.pos)))

ResultColumnP(toks, pos) ==
  OrElse(Attempt(AndThen(pos, IdentP(toks, pos), LAMBDA t :
                   AndThen(t.pos, TokenP(toks, t.pos, "Period"), LAMBDA p :
                     MapVal(TokenP(toks, p.pos, "Asterisk"), LAMBDA v : TableAsterisk(t.val))))),
         OrElse(MapVal(TokenP(toks, pos, "Asterisk"), LAMBDA v : Asterisk),
                AndThen(pos, ExprP(toks, pos), LAMBDA e :
                  MapVal(AliasP(toks, e.pos), LAMBDA alias : ExprColumn(e.val, alias)))))

RECURSIVE ItemP(_, _, _)
RECURSIVE SepByMore(_, _, _, _)

\* repeat::sep_by1(item, token(Comma)) after its first item: a comma that no
\* item follows is a failure that consumed
SepByMore(rule, toks, pos, acc) ==
  LET sep == TokenP(toks, pos, "Comma")
      item == ItemP(rule, toks, sep.pos)
  IN IF sep.st # "ok" THEN POk(pos, acc)
     ELSE IF item.st = "err" THEN PErr(TRUE)
     ELSE IF item.st # "ok" THEN item
     ELSE SepByMore(rule, toks, item.pos, Append(acc, item.val))

\* repeat::sep_by1(item, token(Comma))
SepBy1(rule, toks, pos) ==
  AndThen(pos, ItemP(rule, toks, pos), LAMBDA r : SepByMore(rule, toks, r.pos, <<r.val>>))

\* repeat::sep_by(item, token(Comma))
SepBy(rule, toks, pos) ==
  LET r == SepBy1(rule, toks, pos)
  IN IF r.st = "err" /\ ~r.consumed THEN POk(pos, <<>>) ELSE r

\* single_row of insert_statement_values: ( expr, ... )
SingleRowP(toks, pos) ==
  AndThen(pos, TokenP(toks, pos, "LeftParen"), LAMBDA l :
    AndThen(l.pos, SepBy("expr", toks, l.pos), LAMBDA exprs :
      MapVal(TokenP(toks, exprs.pos, "RightParen"), LAMBDA v : exprs.val)))

\* the parsers that are items of a comma-separated list
ItemP(rule, toks, pos) ==
  IF rule = "ident" THEN IdentP(toks, pos)
  ELSE IF rule = "expr" THEN ExprP(toks, pos)
  ELSE IF rule = "column_def" THEN ColumnDefP(toks, pos)
  ELSE IF rule = "result_column" THEN ResultColumnP(toks, pos)
  ELSE SingleRowP(toks, pos)

CreateTableStatementP(toks, pos) ==
  AndThen(pos, TokenP(toks, pos, "Create"), LAMBDA c :
    AndThen(pos, TokenP(toks, c.pos, "Table"), LAMBDA t :
      AndThen(pos, IdentP(toks, t.pos), LAMBDA name :
        AndThen(pos, TokenP(toks, name.pos, "LeftParen"), LAMBDA l :
          AndThen(pos, SepBy1("column_def", toks, l.pos), LAMBDA defs :
            MapVal(TokenP(toks, defs.pos, "RightParen"),
                   LAMBDA v : CreateStmt(name.val, defs.val)))))))

\* table_list
TableListP(toks, pos) == SepBy1("ident", toks, pos)

SelectStatementP(toks, pos) ==
  AndThen(pos, TokenP(toks, pos, "Select"), LAMBDA s :
    AndThen(pos, SepBy1("result_column", toks, s.pos), LAMBDA columns :
      MapVal(Optional(columns.pos,
                      AndThen(columns.pos, TokenP(toks, columns.pos, "From"), LAMBDA f :
                        TableListP(toks, f.pos))),
             LAMBDA tables : SelectStmt(columns.val, tables))))

\* insert_statement_values: VALUE ( .. ) is SingleRow, VALUES ( .. ), ( .. )
\* is MultipleRows; val is the list of rows in both cases
InsertStatementValuesP(toks, pos) ==
  OrElse(Attempt(AndThen(pos, TokenP(toks, pos, "Value"), LAMBDA v :
                   MapVal(SingleRowP(toks, v.pos), LAMBDA row : <<row>>))),
         Attempt(AndThen(pos, TokenP(toks, pos, "Values"), LAMBDA v :
                   SepBy1("row", toks, v.pos))))

InsertStatementP(toks, pos) ==
  AndThen(pos, TokenP(toks, pos, "Insert"), LAMBDA i :
    AndThen(pos, TokenP(toks, i.pos, "Into"), LAMBDA o :
      AndThen(pos, IdentP(toks, o.pos), LAMBDA table :
        AndThen(pos, TokenP(toks, table.pos, "LeftParen"), LAMBDA l :
          AndThen(pos, SepBy("ident", toks, l.pos), LAMBDA columns :
            AndThen(pos, TokenP(toks, columns.pos, "RightParen"), LAMBDA r :
              MapVal(InsertStatementValuesP(toks, r.pos),
                     LAMBDA values : InsertStmt(table.val, columns.val, values))))))))

\* statement: one of the three statements, then a semicolon
StatementP(toks, pos) ==
  AndThen(pos, OrElse(CreateTableStatementP(toks, pos),
                      OrElse(SelectStatementP(toks, pos), InsertStatementP(toks, pos))),
          LAMBDA s : MapVal(TokenP(toks, s.pos, "SemiColon"), LAMBDA v : s.val))

RECURSIVE ManyStatements(_, _, _)
\* repeat::many1(statement()) after its first statement: it stops, with what
\* it has, at the first statement that fails without consuming
ManyStatements(toks, pos, acc) ==
  LET r == StatementP(toks, pos)
  IN IF r.st = "err" /\ ~r.consumed THEN POk(pos, acc)
     ELSE IF r.st # "ok" THEN r
     ELSE ManyStatements(toks, r.pos, Append(acc, r.val))

\* grammar::parse on the tokens of the input: [st, pos, val], val the
\* statements
ParseTokens(toks) ==
  AndThen(1, StatementP(toks, 1), LAMBDA r : ManyStatements(toks, r.pos, <<r.val>>))

\* grammar::parse
Parse(input) == ParseTokens(Tokenize(input).toks)

\* --------------------------------------------------- texts parsed
\* the statements a text begins with:
\*   1. (empty)
\*   2. create table t (a integer(1));
\*   3. insert into t (a) values (1);
\*   4. select * from t;
\*   5. select a, t.b as c from t, u;
\*   6. insert into t (a, b) value (1, 'b1');
\*   7. CREATE TABLE users (id INTEGER(8), username VARCHAR(20));
\*   8. insert into t (a) values (1), (2);
\*   9. select t.*, 7 n from t;
TextHeads ==
  { <<>>,
    <<99, 114, 101, 97, 116, 101, 32, 116, 97, 98, 108, 101, 32, 116, 32, 40, 97, 32, 105, 110, 116, 101, 103, 101, 114, 40, 49, 41, 41, 59>>,
    <<105, 110, 115, 101, 114, 116, 32, 105, 110, 116, 111, 32, 116, 32, 40, 97, 41, 32, 118, 97, 108, 117, 101, 115, 32, 40, 49, 41, 59>>,
    <<115, 101, 108, 101, 99, 116, 32, 42, 32, 102, 114, 111, 109, 32, 116, 59>>,
    <<115, 101, 108, 101, 99, 116, 32, 97, 44, 32, 116, 46, 98, 32, 97, 115, 32, 99, 32, 102, 114, 111, 109, 32, 116, 44, 32, 117, 59>>,
    <<105, 110, 115, 101, 114, 116, 32, 105, 110, 116, 111, 32, 116, 32, 40, 97, 44, 32, 98, 41, 32, 118, 97, 108, 117, 101, 32, 40, 49, 44, 32, 39, 98, 49, 39, 41, 59>>,
    <<67, 82, 69, 65, 84, 69, 32, 84, 65, 66, 76, 69, 32, 117, 115, 101, 114, 115, 32, 40, 105, 100, 32, 73, 78, 84, 69, 71, 69, 82, 40, 56, 41, 44, 32, 117, 115, 101, 114, 110, 97, 109, 101, 32, 86, 65, 82, 67, 72, 65, 82, 40, 50, 48, 41, 41, 59>>,
    <<105, 110, 115, 101, 114, 116, 32, 105, 110, 116, 111, 32, 116, 32, 40, 97, 41, 32, 118, 97, 108, 117, 101, 115, 32, 40, 49, 41, 44, 32, 40, 50, 41, 59>>,
    <<115, 101, 108, 101, 99, 116, 32, 116, 46, 42, 44, 32, 55, 32, 110, 32, 102, 114, 111, 109, 32, 116, 59>> }

\* what follows them:
\*   1. (empty)
\*   2. (a space)
\*   3. selct * from t;
\*   4. #
\*   5. select * frm t;
\*   6. select * from t
\*   7. ;
\*   8. drop table t;
\*   9. insert into t (a) values (1),;
\*   10. select x'zz';
\*   11. select x'0aff' from t;
\*   12. create table created_at (a integer);
\*   13. select 1 as;
TextTails ==
  { <<>>,
    <<32>>,
    <<115, 101, 108, 99, 116, 32, 42, 32, 102, 114, 111, 109, 32, 116, 59>>,
    <<35>>,
    <<115, 101, 108, 101, 99, 116, 32, 42, 32, 102, 114, 109, 32, 116, 59>>,
    <<115, 101, 108, 101, 99, 116, 32, 42, 32, 102, 114, 111, 109, 32, 116>>,
    <<59>>,
    <<100, 114, 111, 112, 32, 116, 97, 98, 108, 101, 32, 116, 59>>,
    <<105, 110, 115, 101, 114, 116, 32, 105, 110, 116, 111, 32, 116, 32, 40, 97, 41, 32, 118, 97, 108, 117, 101, 115, 32, 40, 49, 41, 44, 59>>,
    <<115, 101, 108, 101, 99, 116, 32, 120, 39, 122, 122, 39, 59>>,
    <<115, 101, 108, 101, 99, 116, 32, 120, 39, 48, 97, 102, 102, 39, 32, 102, 114, 111, 109, 32, 116, 59>>,
    <<99, 114, 101, 97, 116, 101, 32, 116, 97, 98, 108, 101, 32, 99, 114, 101, 97, 116, 101, 100, 95, 97, 116, 32, 40, 97, 32, 105, 110, 116, 101, 103, 101, 114, 41, 59>>,
    <<115, 101, 108, 101, 99, 116, 32, 49, 32, 97, 115, 59>> }

Texts == {h \o <<32>> \o t : h \in TextHeads, t \in TextTails}

\* grammar::parse on a text
ParseText == \E text \in Texts : ProbePure("parse", text, Parse(text))

NextParse == ParseText

SpecParse == Init /\ [][NextParse]_vars

\* the tokens of a text that follow the statements parse returned
Leftover(text, res) == Len(Tokenize(text).toks) - (res.pos - 1)

\* C34: parse returns statements only when they are the whole input: every
\* character was tokenized and no token remains behind the last statement.
C34_ParseConsumesWholeInput ==
  (probe.op = "parse" /\ probe.res.st = "ok") =>
    /\ Tokenize(probe.arg).st = "eof"
    /\ Leftover(probe.arg, probe.res) = 0

\* tokens remain behind a statement that parsed
C34_TokensBehindStatement ==
  /\ probe.op = "parse"
  /\ StatementP(Tokenize(probe.arg).toks, 1).st = "ok"
  /\ LET r == ManyStatements(Tokenize(probe.arg).toks, 1, <<>>)
     IN r.st = "ok" /\ r.pos <= Len(Tokenize(probe.arg).toks)

\* ------------------------------------------------- queries given as text
\* the texts given to execute_query:
\*   1. create table t (a integer(1));
\*   2. insert into t (a) values (1);
\*   3. create table u (b varchar(2)); insert into u (b) values ('hi');
\*   4. select * from t;
\*   5. create table v (a integer(1)); selct * from v;
\*   6. insert into t (a) values (2); #
\*   7. insert into t (a) values (3); select * frm t;
\*   8. selct * from t;
\*   9. insert into t (a) values (4); insert into t (a) values (5)
Queries ==
  { <<99, 114, 101, 97, 116, 101, 32, 116, 97, 98, 108, 101, 32, 116, 32, 40, 97, 32, 105, 110, 116, 101, 103, 101, 114, 40, 49, 41, 41, 59>>,
    <<105, 110, 115, 101, 114, 116, 32, 105, 110, 116, 111, 32, 116, 32, 40, 97, 41, 32, 118, 97, 108, 117, 101, 115, 32, 40, 49, 41, 59>>,
    <<99, 114, 101, 97, 116, 101, 32, 116, 97, 98, 108, 101, 32, 117, 32, 40, 98, 32, 118, 97, 114, 99, 104, 97, 114, 40, 50, 41, 41, 59, 32, 105, 110, 115, 101, 114, 116, 32, 105, 110, 116, 111, 32, 117, 32, 40, 98, 41, 32, 118, 97, 108, 117, 101, 115, 32, 40, 39, 104, 105, 39, 41, 59>>,
    <<115, 101, 108, 101, 99, 116, 32, 42, 32, 102, 114, 111, 109, 32, 116, 59>>,
    <<99, 114, 101, 97, 116, 101, 32, 116, 97, 98, 108, 101, 32, 118, 32, 40, 97, 32, 105, 110, 116, 101, 103, 101, 114, 40, 49, 41, 41, 59, 32, 115, 101, 108, 99, 116, 32, 42, 32, 102, 114, 111, 109, 32, 118, 59>>,
    <<105, 110, 115, 101, 114, 116, 32, 105, 110, 116, 111, 32, 116, 32, 40, 97, 41, 32, 118, 97, 108, 117, 101, 115, 32, 40, 50, 41, 59, 32, 35>>,
    <<105, 110, 115, 101, 114, 116, 32, 105, 110, 116, 111, 32, 116, 32, 40, 97, 41, 32, 118, 97, 108, 117, 101, 115, 32, 40, 51, 41, 59, 32, 115, 101, 108, 101, 99, 116, 32, 42, 32, 102, 114, 109, 32, 116, 59>>,
    <<115, 101, 108, 99, 116, 32, 42, 32, 102, 114, 111, 109, 32, 116, 59>>,
    <<105, 110, 115, 101, 114, 116, 32, 105, 110, 116, 111, 32, 116, 32, 40, 97, 41, 32, 118, 97, 108, 117, 101, 115, 32, 40, 52, 41, 59, 32, 105, 110, 115, 101, 114, 116, 32, 105, 110, 116, 111, 32, 116, 32, 40, 97, 41, 32, 118, 97, 108, 117, 101, 115, 32, 40, 53, 41>> }

\* the state after a call of execute_query(text) that ended as machine R,
\* parse having returned p
ApplyText(R, text, p) ==
  /\ file' = R.file
  /\ meta' = R.meta
  /\ alive' = (R.st \in {"ok", "err"})
  /\ status' = R.st
  /\ out' = R.out
  /\ rowlog' = rowlog \o R.rows
  /\ tablog' = tablog \o R.tabs
  /\ alloclog' = alloclog \o R.allocs
  /\ lastq' = (IF p.st = "ok" THEN p.val ELSE <<>>)
  /\ prev' = [file |-> file, meta |-> meta, rows |-> Len(rowlog), tabs |-> Len(tablog)]
  /\ nstmts' = nstmts + 1
  /\ probe' = [op |-> "query", arg |-> text, res |-> p]
  /\ UNCHANGED <<stream, faults>>

\* Database::execute_query(text, f), process_query having returned p: the
\* statements it returned, one after the other
RunText(text, p) ==
  /\ alive /\ nstmts < MaxStmts
  /\ ApplyText(IF p.st = "ok" THEN ExecuteQuery(Machine(file, meta, -1), p.val)
               ELSE Fail(Machine(file, meta, -1), p.st),
               text, p)

\* execute_query on one of the texts
DoQuery == \E text \in Queries : RunText(text, Parse(text))

NextQuery == DoQuery \/ Reopen

SpecQuery == Init /\ [][NextQuery]_vars

\* the text is statements and nothing else: all of it is tokenized, and the
\* statements parsed leave no token
OnlyStatements(text) ==
  /\ Tokenize(text).st = "eof"
  /\ Parse(text).st = "ok"
  /\ Leftover(text, Parse(text)) = 0

\* C40: when the text given to execute_query does not tokenize or parse, at
\* whichever statement, no statement of it is executed: nothing is reported
\* and the file, the header, the tables and the rows are as before the call.
C40_ParseFailureRunsNothing ==
  (probe.op = "query" /\ ~OnlyStatements(probe.arg)) =>
    /\ out = <<>>
    /\ file = prev.file /\ meta = prev.meta
    /\ Len(rowlog) = prev.rows /\ Len(tablog) = prev.tabs

\* a text whose second statement does not parse was given to a database
\* that the first statement can change
C40_SecondStatementBad ==
  /\ probe.op = "query" /\ ~OnlyStatements(probe.arg)
  /\ StatementP(Tokenize(probe.arg).toks, 1).st = "ok"
  /\ lastq = <<>> /\ status = "err" /\ Len(tablog) > 0

\* the part of C40 that holds: when parse returns an error nothing runs
C40_ParseErrorRunsNothing ==
  (probe.op = "query" /\ probe.res.st # "ok" /\ lastq = <<>> /\ status # "ok") =>
    /\ out = <<>> /\ file = prev.file /\ meta = prev.meta
    /\ Len(rowlog) = prev.rows /\ Len(tablog) = prev.tabs

\* ------------------------------------------- inserts with odd column lists
\* INSERT INTO t (a, a) VALUES (1, 'x'): a column named twice
InsTRepeat == InsertStmt(TName, <<ColA, ColA>>, <<<<NumLit(1), StrLit(<<120>>)>>>>)
\* INSERT INTO t (a, s) VALUES (1): a value row shorter than the column list
InsTShortRow == InsertStmt(TName, <<ColA, ColS>>, <<<<NumLit(1)>>>>)
\* INSERT INTO t (a, s) VALUES (7, 'g'), (8): the second value row is short
InsTShortSecond ==
  InsertStmt(TName, <<ColA, ColS>>, <<<<NumLit(7), StrLit(<<103>>)>>, <<NumLit(8)>>>>)
\* INSERT INTO t (a, s) VALUES (1, 'a'), (2, 'b'), (3, 4): the third value
\* row has a number for the VARCHAR column
InsTKindThird ==
  InsertStmt(TName, <<ColA, ColS>>, <<<<NumLit(1), StrLit(<<97>>)>>,
                                      <<NumLit(2), StrLit(<<98>>)>>,
                                      <<NumLit(3), NumLit(4)>>>>)
\* INSERT INTO t (a, s) VALUES (1, 'a'), (s, 'b'): a column name as a value
InsTColumnValue ==
  InsertStmt(TName, <<ColA, ColS>>, <<<<NumLit(1), StrLit(<<97>>)>>,
                                      <<ColIdent(ColS, <<>>), StrLit(<<98>>)>>>>)

MappedInserts ==
  { InsTTwo, InsTPerm, InsTShort, InsTUnknown, InsTKind, InsTKindSecond, InsTRepeat,
    InsTShortRow, InsTShortSecond, InsTKindThird, InsTColumnValue }

DoInsertMapped == alive /\ nstmts < MaxStmts /\ \E stmt \in MappedInserts : Run(<<stmt>>)

NextInsert == DoCreate \/ DoInsertMapped \/ Reopen

SpecInsert == Init /\ [][NextInsert]_vars

\* the last call was an INSERT into a table that existed, and its column
\* list passed both checks: as many columns as fields, every column a field
PassedColumnChecks ==
  /\ TargetBefore # <<>>
  /\ ~ColumnCountMismatch(lastq[1], TargetBefore[1].schema.fields)
  /\ ~UnknownColumn(lastq[1], TargetBefore[1].schema.fields)

\* C35: for an INSERT that passed the column checks the mapping has an entry
\* for every field of the table, and every entry is an index inside every
\* value row: building a row does not fail on the mapping.
C35_MappingCoversEveryField ==
  PassedColumnChecks =>
    LET stmt == lastq[1]
        fields == TargetBefore[1].schema.fields
        mapping == InsertMapping(fields, stmt.columns)
    IN /\ \A i \in 1..Len(fields) : i \in DOMAIN mapping
       /\ \A r \in 1..Len(stmt.values) : \A i \in DOMAIN mapping : mapping[i] <= Len(stmt.values[r])
       /\ status # "panic"

\* an INSERT whose column list names a column twice passed the column checks
C35_RepeatedColumnPassed ==
  /\ PassedColumnChecks
  /\ \E c, d \in 1..Len(lastq[1].columns) : c # d /\ lastq[1].columns[c] = lastq[1].columns[d]

\* ------------------------------------------------ INSERT of several rows
\* the last call was an INSERT of several value rows into a table that
\* existed, with a column list that names every field once and value rows as
\* long as the column list, and value row k (counted from 1) is the first
\* one that fails conversion or coercion: 0 when the call was none of this
FirstFailingRow ==
  IF /\ TargetBefore # <<>>
     /\ Len(lastq[1].values) > 1
     /\ WellFormedColumns(lastq[1], TargetBefore[1].schema.fields)
     /\ \A r \in 1..Len(lastq[1].values) : Len(lastq[1].values[r]) = Len(lastq[1].columns)
  THEN FirstRow(lastq[1], LAMBDA r : RowIncompatible(lastq[1], TargetBefore[1].schema.fields, r))
  ELSE 0

\* slot i of the data stream of a table: row meta and payload
SlotAt(ods, i) == StoredAt(ods, i * SizeofRowOnDisk(ods.schema), SizeofRowOnDisk(ods.schema))

\* C36: when value row k (from 1) of a multi-row INSERT is the first that
\* fails conversion or coercion, the statement returns an error, the rows
\* 1..k-1 and no others were appended, they are in the slots behind the rows
\* the table had, in statement order, and the sentinel is in the slot after
\* them.
C36_RowsBeforeFailureAppended ==
  (FirstFailingRow > 0 /\
   \A q \in 1..(FirstFailingRow - 1) :
      ~RowTooLong(lastq[1], TargetBefore[1].schema.fields, q)) =>
    LET stmt == lastq[1]
        ods == TargetBefore[1]
        k == FirstFailingRow
        had == Len(RowsOf(stmt.table)) - (k - 1)
    IN /\ status = "err"
       /\ Len(rowlog) = prev.rows + (k - 1)
       /\ \A q \in 1..(k - 1) :
            /\ rowlog[prev.rows + q].table = stmt.table
            /\ SlotAt(ods, had + q - 1).st = "ok"
            /\ SlotAt(ods, had + q - 1).ret =
                 RowMetaChunk(FALSE) \o EncodeRow(stmt, ods.schema.fields, q, 1)
       /\ SlotMeta(ods, had + k - 1).st = "ok"
       /\ SlotMeta(ods, had + k - 1).ret = RowMetaChunk(TRUE)

\* the third value row of an INSERT was the first to fail
C36_ThirdRowFailed == FirstFailingRow = 3 /\ status = "err"

\* C36 where the size bug of the block view does not reach: the table had no
\* row and one row was appended before the failing one
C36_FirstRowIntoEmptyTable ==
  (FirstFailingRow = 2 /\ Len(RowsOf(lastq[1].table)) = 1 /\
   ~RowTooLong(lastq[1], TargetBefore[1].schema.fields, 1)) =>
    /\ status = "err"
    /\ Len(rowlog) = prev.rows + 1
    /\ SlotAt(TargetBefore[1], 0).ret =
         RowMetaChunk(FALSE) \o EncodeRow(lastq[1], TargetBefore[1].schema.fields, 1, 1)
    /\ SlotMeta(TargetBefore[1], 1).ret = RowMetaChunk(TRUE)

\* ------------------------------------------------ scans of a wide table
\* CREATE TABLE w (v VARCHAR(40)): a row takes 50 bytes of the data stream,
\* more than the payload of a block
TabW == <<119>>
ColV == <<118>>
CreateWide == CreateStmt(TabW, <<ColumnDef(ColV, "Varchar", <<40>>)>>)
InsWide == InsertStmt(TabW, <<ColV>>, <<<<StrLit(<<97, 98, 99>>)>>>>)
SelWide == SelectStmt(<<Asterisk>>, <<<<TabW>>>>)
SelMissing == SelectStmt(<<Asterisk>>, <<<<ColZ>>>>)

ScanStmts == {CreateWide, CreateUsers, InsWide, InsUsers1, InsUsersPerm}

DoScanSetup == alive /\ nstmts < MaxStmts /\ \E stmt \in ScanStmts : Run(<<stmt>>)

DoScan ==
  alive /\ nstmts < MaxStmts /\ \E stmt \in {SelWide, SelUsers, SelMissing} : Run(<<stmt>>)

NextScan == DoScanSetup \/ DoScan \/ Reopen

SpecScan == Init /\ [][NextScan]_vars

\* C37: a SELECT leaves the file as it was: the header with
\* num_allocated_blocks, the catalog and every block of every data chain.
C37_SelectLeavesFile ==
  IsSingle("select") => (file = prev.file /\ meta = prev.meta /\ MetaFromDisk(file) = meta)

\* a SELECT ran to exhaustion over a table whose rows span blocks and
\* reported a row
C37_WideScanDone ==
  /\ IsSingle("select") /\ status = "ok"
  /\ lastq[1].tables = <<<<TabW>>>>
  /\ Len(out) = 1 /\ Len(out[1].rows) > 0

\* -------------------------------------------------- INTEGER(n) columns
\* the arguments given to INTEGER: the small ones, and values around the
\* multiples of 256
IntegerArgs == (0..17) \cup {32, 64, 128, 255, 256, 257, 258, 260, 264, 272, 512, 513, 65537}

\* CREATE TABLE t (a INTEGER(n))
CreateInteger(n) == CreateStmt(TName, <<ColumnDef(ColA, "Integer", <<n>>)>>)

DoCreateInteger == alive /\ nstmts < MaxStmts /\ \E n \in IntegerArgs : Run(<<CreateInteger(n)>>)

NextColumn == DoCreateInteger \/ Reopen

SpecColumn == Init /\ [][NextColumn]_vars

\* C38: CREATE TABLE with a column INTEGER(n) either creates a table whose
\* field is Number of width n, n one of 1, 2, 4, 8, or fails and creates no
\* table.
C38_IntegerWidthExact ==
  IsSingle("create") =>
    LET n == lastq[1].column_defs[1].argument[1]
    IN IF Len(tablog) > prev.tabs
       THEN /\ n \in {1, 2, 4, 8}
            /\ tablog[Len(tablog)].schema.fields[1].kind = Number(n)
       ELSE status = "err" /\ file = prev.file

\* a CREATE TABLE with INTEGER(n), n above 255, was executed
C38_LargeArgumentTried ==
  IsSingle("create") /\ lastq[1].column_defs[1].argument[1] > U8Max

\* C38 for the arguments that fit a u8
C38_IntegerWidthExactBelow256 ==
  (IsSingle("create") /\ lastq[1].column_defs[1].argument[1] <= U8Max) => C38_IntegerWidthExact

\* ------------------------------------------- cross join with an empty input
\* the statement lists of the join runs: the tables created empty, rows
\* inserted into one or two of them, so that any subset of the inputs is
\* empty, and the cross joins of two and three tables
JoinLists ==
  { <<CreateOne(TabA), CreateOne(TabB)>>,
    <<CreateOne(TabA), CreateOne(TabB), CreateOne(TabC)>>,
    <<InsOne(TabA, 1)>>, <<InsOne(TabB, 10)>>, <<InsOne(TabC, 100)>>,
    <<InsOne(TabA, 1), InsOne(TabB, 10)>>,
    <<InsOne(TabA, 1), InsOne(TabC, 100)>>,
    <<InsOne(TabB, 10), InsOne(TabC, 100)>>,
    <<SelFrom(<<TabA, TabB>>)>>,
    <<SelFrom(<<TabB, TabA>>)>>,
    <<SelFrom(<<TabA, TabB, TabC>>)>> }

DoJoinList == alive /\ nstmts < MaxStmts /\ \E ast \in JoinLists : Run(ast)

NextJoin == DoJoinList \/ Reopen

SpecJoin == Init /\ [][NextJoin]_vars

\* the positions of the FROM list of the last call whose table had no rows
EmptyInputs ==
  {i \in 1..Len(lastq[1].tables[1]) : RowsBefore(lastq[1].tables[1][i]) = <<>>}

\* the last call was a cross join of tables of the catalog, one of them empty
JoinWithEmptyInput ==
  /\ \E n \in 2..3 : SelectOver(n)
  /\ EmptyInputs # {}

\* the first next_row on the MultiTableIterator of the last call's FROM list
FirstPull ==
  MTNextRow(Before, [i \in 1..Len(FromTables) |-> SchemaReaderNew(FromTables[i][1])])

\* C39: a cross join in which at least one input table has no rows returns
\* without failing and with zero rows, and the first next_row on its
\* iterator returns None, whichever of the inputs is the empty one.
C39_EmptyInputYieldsNothing ==
  JoinWithEmptyInput =>
    /\ status = "ok"
    /\ out[1].rows = <<>>
    /\ FirstPull.st = "ok"
    /\ FirstPull.ret.row = <<>>

\* a cross join whose second input alone is empty has been run
C39_SecondInputEmpty ==
  /\ SelectOver(2)
  /\ EmptyInputs = {2}

====
